---- MODULE Spec2Model ----
(***************************************************************************)
(* The Layout Type Graph engine of the Data Layout Analysis:               *)
(* dla::LayoutTypeSystem, dla::LayoutTypeSystemNode, dla::TypeLinkTag and  *)
(* dla::VectEqClasses (DLATypeSystem.h, DLATypeSystem.cpp).                *)
(*                                                                         *)
(* A node is identified by its ID: the arena never hands an address out    *)
(* twice (BumpPtrAllocator::Deallocate does nothing) and every node gets   *)
(* the next NID, so the address and the ID name the same thing.  A tag is  *)
(* identified by its value: LinkTags is a std::set<TypeLinkTag>, so a      *)
(* pointer into it and the value it holds name the same thing.             *)
(* A failed revng_assert / revng_unreachable / assert ends the process:    *)
(* halted becomes TRUE and nothing happens afterwards.                     *)
(***************************************************************************)
EXTENDS Integers, Sequences, FiniteSets, TLC

\* ------------------------------------------------------------------ bounds
\* Number of createArtificialLayoutType calls explored.
MaxNodes == 3
\* Number of links a graph may hold when a link is added: two opposite
\* entries with one tag, as an equality link makes them, are one link.
MaxEdges == 2
\* Largest Offset of an OffsetExpression explored.
MaxOffset == 1
\* Number of direct writes to the public fields Size / InterferingInfo.
MaxFieldWrites == 2
\* Longest vector handed to mergeNodes.
MaxMerge == 3
\* Number of link calls that build a graph handed to the checks of its shape.
MaxVerifyEdges == 3

\* ------------------------------------------------------------------ values
\* nullptr, and the empty std::optional<unsigned>.
Null == 0 - 1

NodeIDs == 0 .. (MaxNodes - 1)

\* Byte sizes written by the collaborators (0 is "not yet known").
Sizes == {0, 4, 8}

OffsetExpression(Off) == [Offset |-> Off, Strides |-> << >>, TripCounts |-> << >>]

\* An OffsetExpression describing an array: one stride with a known trip count.
StridedOE == [Offset |-> 0, Strides |-> <<2>>, TripCounts |-> <<3>>]

\* The OffsetExpressions handed to addInstanceLink.
OffsetExprs == {OffsetExpression(o) : o \in 0 .. MaxOffset} \cup {StridedOE}

\* The offsets handed to moveEdge.
OffsetsToSum == {0 - 1, 0, 1}

\* equalityTag building its tag with the Pointer kind.
equalityTag_PointerKind == [Kind |-> "LK_Pointer", OE |-> OffsetExpression(0)]

equalityTag == [Kind |-> "LK_Equality", OE |-> OffsetExpression(0)]

inheritanceTag == [Kind |-> "LK_Inheritance", OE |-> OffsetExpression(0)]

instanceTag(O) == [Kind |-> "LK_Instance", OE |-> O]

pointerTag == [Kind |-> "LK_Pointer", OE |-> OffsetExpression(0)]

getKind(T) == T.Kind

getOffsetExpr(T) == T.OE

\* ------------------------------------------------------------------- state
VARIABLES
  NID,             \* LayoutTypeSystem::NID
  Layouts,         \* LayoutTypeSystem::Layouts, the live nodes
  Successors,      \* LayoutTypeSystemNode::Successors, per node
  Predecessors,    \* LayoutTypeSystemNode::Predecessors, per node
  Size,            \* LayoutTypeSystemNode::Size, per node
  InterferingInfo, \* LayoutTypeSystemNode::InterferingInfo, per node
  LinkTags,        \* LayoutTypeSystem::LinkTags
  EC,              \* llvm::IntEqClasses::EC of EqClasses
  NumClasses,      \* llvm::IntEqClasses::NumClasses of EqClasses
  RemovedID,       \* VectEqClasses::RemovedID
  NElems,          \* VectEqClasses::NElems
  writes,          \* number of direct field writes so far
  last,            \* the last call: its name, arguments and result
  halted           \* TRUE once a call has aborted the process

vars == <<NID, Layouts, Successors, Predecessors, Size, InterferingInfo,
          LinkTags, EC, NumClasses, RemovedID, NElems, writes, last, halted>>

graph == <<NID, Layouts, Successors, Predecessors, Size, InterferingInfo, LinkTags>>

eqclasses == <<EC, NumClasses, RemovedID, NElems>>

\* The record kept in last: the call, the path it took through the code and
\* its arguments.
Call(op, path, src, tgt, tag, off, list) ==
  [op |-> op, path |-> path, src |-> src, tgt |-> tgt, tag |-> tag, off |-> off,
   list |-> list]

\* The tag of a call that has none, and the null TypeLinkTag pointer.
NoTag == [Kind |-> "none", OE |-> OffsetExpression(0)]

\* A call that returns without having touched anything is recorded without
\* its arguments.
Ignored(op, path) == Call(op, path, Null, Null, NoTag, 0, << >>)

Init ==
  /\ NID = 0
  /\ Layouts = {}
  /\ Successors = [n \in NodeIDs |-> {}]
  /\ Predecessors = [n \in NodeIDs |-> {}]
  /\ Size = [n \in NodeIDs |-> 0]
  /\ InterferingInfo = [n \in NodeIDs |-> "Unknown"]
  /\ LinkTags = {}
  /\ EC = << >>
  /\ NumClasses = 0
  /\ RemovedID = Null
  /\ NElems = 0
  /\ writes = 0
  /\ last = Ignored("init", "init")
  /\ halted = FALSE

\* The nodes that exist or existed: the node pointers a caller can hold.
Created == 0 .. (NID - 1)

\* Number of successor entries held by the live nodes.
RECURSIVE SumCard(_, _)
SumCard(F, D) ==
  IF D = {} THEN 0
  ELSE LET n == CHOOSE x \in D : TRUE
       IN Cardinality(F[n]) + SumCard(F, D \ {n})

\* Whether the successor sets S are within the explored number of links:
\* two opposite entries with one tag count as one link.
WithinBounds(S) ==
  Cardinality(UNION {{<<{n, l[1]}, l[2]>> : l \in S[n]} : n \in Layouts}) <= MaxEdges

\* A call that aborts: the process ends, whatever the call had written.
Abort(call, path) ==
  /\ halted' = TRUE
  /\ last' = [call EXCEPT !.path = path]
  /\ UNCHANGED <<graph, eqclasses, writes>>

\* ------------------------------------------------- llvm::IntEqClasses part
\* grow(N): push_back(EC.size()) until EC.size() == N.  EC is 0-based.
grow(ec, N) == [i \in 1 .. N |-> IF i <= Len(ec) THEN ec[i] ELSE i - 1]

\* join(a, b): the loop, with the cached leaders eca and ecb.
RECURSIVE joinLoop(_, _, _, _, _)
joinLoop(ec, a, b, eca, ecb) ==
  IF eca = ecb THEN ec
  ELSE IF eca < ecb
       THEN LET ec1 == [ec EXCEPT ![b + 1] = eca]
            IN joinLoop(ec1, a, ecb, eca, ec1[ecb + 1])
       ELSE LET ec1 == [ec EXCEPT ![a + 1] = ecb]
            IN joinLoop(ec1, eca, b, ec1[eca + 1], ecb)

\* join that leaves the two classes apart.
join_NoJoin(ec, a, b) == ec

join(ec, a, b) == joinLoop(ec, a, b, ec[a + 1], ec[b + 1])

RECURSIVE findLeaderIn(_, _)
findLeaderIn(ec, a) == IF a = ec[a + 1] THEN a ELSE findLeaderIn(ec, ec[a + 1])

findLeader(a) == findLeaderIn(EC, a)

getNumClasses == NumClasses

\* ---------------------------------------------------- LayoutTypeSystem part
\* createArtificialLayoutType without ++NID.
createArtificialLayoutType_NoIncrement ==
  /\ ~halted
  /\ NID < MaxNodes
  /\ IF NumClasses # 0
     THEN Abort(Ignored("createNode", ""), "abort: grow on a compressed map")
     ELSE /\ NElems' = NElems + 1
          /\ EC' = grow(EC, NElems + 1)
          /\ Layouts' = Layouts \cup {NID}
          /\ Successors' = [Successors EXCEPT ![NID] = {}]
          /\ Predecessors' = [Predecessors EXCEPT ![NID] = {}]
          /\ Size' = [Size EXCEPT ![NID] = 0]
          /\ InterferingInfo' = [InterferingInfo EXCEPT ![NID] = "Unknown"]
          /\ last' = Call("createNode", "created", NID, Null, NoTag, 0, << >>)
          /\ UNCHANGED <<NID, LinkTags, NumClasses, RemovedID, writes, halted>>

createArtificialLayoutType ==
  /\ ~halted
  /\ NID < MaxNodes
  /\ IF NumClasses # 0
     THEN \* IntEqClasses::grow asserts that the map is not compressed
          Abort(Ignored("createNode", ""), "abort: grow on a compressed map")
     ELSE /\ NID' = NID + 1
          /\ NElems' = NElems + 1
          /\ EC' = grow(EC, NElems + 1)
          /\ Layouts' = Layouts \cup {NID}
          /\ Successors' = [Successors EXCEPT ![NID] = {}]
          /\ Predecessors' = [Predecessors EXCEPT ![NID] = {}]
          /\ Size' = [Size EXCEPT ![NID] = 0]
          /\ InterferingInfo' = [InterferingInfo EXCEPT ![NID] = "Unknown"]
          /\ last' = Call("createNode", "created", NID, Null, NoTag, 0, << >>)
          /\ UNCHANGED <<LinkTags, NumClasses, RemovedID, writes, halted>>

\* addLink that links with the tag it was handed and stores none.
addLink_TagNotStored(S, P, LT, L, Src, Tgt, Tag) ==
  IF Src = Null \/ Tgt = Null \/ Src = Tgt
  THEN [abort |-> FALSE, S |-> S, P |-> P, LT |-> LT, tag |-> NoTag, new |-> FALSE]
  ELSE IF Src \notin L \/ Tgt \notin L
  THEN [abort |-> TRUE, S |-> S, P |-> P, LT |-> LT, tag |-> NoTag, new |-> FALSE]
  ELSE [abort |-> FALSE,
        S |-> [S EXCEPT ![Src] = @ \cup {<<Tgt, Tag>>}],
        P |-> [P EXCEPT ![Tgt] = @ \cup {<<Src, Tag>>}],
        LT |-> LT,
        tag |-> Tag,
        new |-> (<<Tgt, Tag>> \notin S[Src]) \/ (<<Src, Tag>> \notin P[Tgt])]

\* addLink that takes its flag from the insertion into LinkTags.
addLink_FlagOfTagInsert(S, P, LT, L, Src, Tgt, Tag) ==
  IF Src = Null \/ Tgt = Null \/ Src = Tgt
  THEN [abort |-> FALSE, S |-> S, P |-> P, LT |-> LT, tag |-> NoTag, new |-> FALSE]
  ELSE IF Src \notin L \/ Tgt \notin L
  THEN [abort |-> TRUE, S |-> S, P |-> P, LT |-> LT, tag |-> NoTag, new |-> FALSE]
  ELSE [abort |-> FALSE,
        S |-> [S EXCEPT ![Src] = @ \cup {<<Tgt, Tag>>}],
        P |-> [P EXCEPT ![Tgt] = @ \cup {<<Src, Tag>>}],
        LT |-> LT \cup {Tag},
        tag |-> Tag,
        new |-> Tag \notin LT]

\* addLink without the Src == Tgt test.
addLink_NoSelfTest(S, P, LT, L, Src, Tgt, Tag) ==
  IF Src = Null \/ Tgt = Null
  THEN [abort |-> FALSE, S |-> S, P |-> P, LT |-> LT, tag |-> NoTag, new |-> FALSE]
  ELSE IF Src \notin L \/ Tgt \notin L
  THEN [abort |-> TRUE, S |-> S, P |-> P, LT |-> LT, tag |-> NoTag, new |-> FALSE]
  ELSE [abort |-> FALSE,
        S |-> [S EXCEPT ![Src] = @ \cup {<<Tgt, Tag>>}],
        P |-> [P EXCEPT ![Tgt] = @ \cup {<<Src, Tag>>}],
        LT |-> LT \cup {Tag},
        tag |-> Tag,
        new |-> (<<Tgt, Tag>> \notin S[Src]) \/ (<<Src, Tag>> \notin P[Tgt])]

\* addLink that asserts Src only to be in Layouts.
addLink_TgtUnchecked(S, P, LT, L, Src, Tgt, Tag) ==
  IF Src = Null \/ Tgt = Null \/ Src = Tgt
  THEN [abort |-> FALSE, S |-> S, P |-> P, LT |-> LT, tag |-> NoTag, new |-> FALSE]
  ELSE IF Src \notin L
  THEN [abort |-> TRUE, S |-> S, P |-> P, LT |-> LT, tag |-> NoTag, new |-> FALSE]
  ELSE [abort |-> FALSE,
        S |-> [S EXCEPT ![Src] = @ \cup {<<Tgt, Tag>>}],
        P |-> [P EXCEPT ![Tgt] = @ \cup {<<Src, Tag>>}],
        LT |-> LT \cup {Tag},
        tag |-> Tag,
        new |-> (<<Tgt, Tag>> \notin S[Src]) \/ (<<Src, Tag>> \notin P[Tgt])]

\* addLink on the adjacency S, P, the tag set LT and the live set L.  tag and
\* new are the pair it returns; NoTag is the null tag pointer.
addLink(S, P, LT, L, Src, Tgt, Tag) ==
  IF Src = Null \/ Tgt = Null \/ Src = Tgt
  THEN [abort |-> FALSE, S |-> S, P |-> P, LT |-> LT, tag |-> NoTag, new |-> FALSE]
  ELSE IF Src \notin L \/ Tgt \notin L
  THEN [abort |-> TRUE, S |-> S, P |-> P, LT |-> LT, tag |-> NoTag, new |-> FALSE]
  ELSE [abort |-> FALSE,
        S |-> [S EXCEPT ![Src] = @ \cup {<<Tgt, Tag>>}],
        P |-> [P EXCEPT ![Tgt] = @ \cup {<<Src, Tag>>}],
        LT |-> LT \cup {Tag},
        tag |-> Tag,
        new |-> (<<Tgt, Tag>> \notin S[Src]) \/ (<<Src, Tag>> \notin P[Tgt])]

\* The node pointers a caller can pass: a node it was given, or nullptr.
NodeArgs == Created \cup {Null}

\* The (Src, Tgt) arguments of the link calls: any pointers, or two distinct
\* live nodes.
AnyPairs == NodeArgs \X NodeArgs

LivePairs == {p \in Layouts \X Layouts : p[1] # p[2]}

\* Installs the result r of addLink as the outcome of the call.
LinkOutcome(call, r) ==
  IF r.abort
  THEN Abort(call, "abort: node not in Layouts")
  ELSE /\ WithinBounds(r.S)
       /\ Successors' = r.S
       /\ Predecessors' = r.P
       /\ LinkTags' = r.LT
       /\ last' = IF r.tag = NoTag
                  THEN [call EXCEPT !.path = "null or self", !.tag = NoTag]
                  ELSE [call EXCEPT !.path = IF r.new THEN "new" ELSE "not new"]
       /\ UNCHANGED <<NID, Layouts, Size, InterferingInfo, eqclasses, writes, halted>>

addEqualityLink(Args) ==
  /\ ~halted
  /\ \E arg \in Args :
       LET Src == arg[1]
           Tgt == arg[2]
           call == Call("addEqualityLink", "", Src, Tgt, equalityTag, 0, << >>)
           F == addLink(Successors, Predecessors, LinkTags, Layouts, Src, Tgt, equalityTag)
           B == addLink(F.S, F.P, F.LT, Layouts, Tgt, Src, equalityTag)
       IN IF F.abort \/ B.abort
          THEN Abort(call, "abort: node not in Layouts")
          ELSE IF <<F.tag, F.new>> # <<B.tag, B.new>>
          THEN Abort(call, "abort: ForwardLinkTag != BackwardLinkTag")
          ELSE LinkOutcome(call, [B EXCEPT !.tag = F.tag, !.new = F.new])

addInheritanceLink(Args) ==
  /\ ~halted
  /\ \E Src \in NodeArgs, Tgt \in NodeArgs :
       <<Src, Tgt>> \in Args /\
       LinkOutcome(Call("addInheritanceLink", "", Src, Tgt, inheritanceTag, 0, << >>),
                   addLink(Successors, Predecessors, LinkTags, Layouts, Src, Tgt,
                           inheritanceTag))

addInstanceLink(Args, OEs) ==
  /\ ~halted
  /\ \E Src \in NodeArgs, Tgt \in NodeArgs, OE \in OEs :
       <<Src, Tgt>> \in Args /\
       LinkOutcome(Call("addInstanceLink", "", Src, Tgt, instanceTag(OE), 0, << >>),
                   addLink(Successors, Predecessors, LinkTags, Layouts, Src, Tgt,
                           instanceTag(OE)))

addPointerLink(Args) ==
  /\ ~halted
  /\ \E Src \in NodeArgs, Tgt \in NodeArgs :
       <<Src, Tgt>> \in Args /\
       LinkOutcome(Call("addPointerLink", "", Src, Tgt, pointerTag, 0, << >>),
                   addLink(Successors, Predecessors, LinkTags, Layouts, Src, Tgt,
                           pointerTag))

\* ------------------------------------------------------- adjacency helpers
\* The entries of a NeighborsSet whose node is N: the range
\* [lower_bound({N, nullptr}), upper_bound({std::next(N), nullptr})).
EntriesOf(Set, N) == {l \in Set : l[1] = N}

\* Retarget that leaves the entries of From in place.
Retarget_Kept(Set, From, Into) == Set

\* extract every entry of From and insert it again with Into as its node.
Retarget(Set, From, Into) ==
  (Set \ EntriesOf(Set, From)) \cup {<<Into, l[2]>> : l \in EntriesOf(Set, From)}

Neighbors(Set) == {l[1] : l \in Set}

\* A destroyed node holds nothing: its sets are gone with it.
Destroy(F, L) == [n \in DOMAIN F |-> IF n \in L THEN F[n] ELSE {}]

\* Reading the adjacency of a destroyed node is undefined: the call either
\* crashes or goes on as if the destroyed sets were empty.
UBOutcomes == {"crash", "goes on"}

RemoveSelfEdges(Set, From, Into) == (Set \ EntriesOf(Set, From)) \ EntriesOf(Set, Into)

fixPredSucc(S, P, From, Into) ==
  LET N1 == Neighbors(S[From])
      P1 == [n \in DOMAIN P |-> IF n \in N1 THEN Retarget(P[n], From, Into) ELSE P[n]]
      N2 == Neighbors(P1[From])
      S1 == [n \in DOMAIN S |-> IF n \in N2 THEN Retarget(S[n], From, Into) ELSE S[n]]
      P2 == [P1 EXCEPT ![Into] = @ \cup P1[From]]
      S2 == [S1 EXCEPT ![Into] = @ \cup S1[From]]
  IN [S |-> [S2 EXCEPT ![Into] = RemoveSelfEdges(@, From, Into)],
      P |-> [P2 EXCEPT ![Into] = RemoveSelfEdges(@, From, Into)],
      touched |-> N1 \cup N2]

\* Max that gives its first argument back: Into keeps its own Size.
Max_KeepsFirst(a, b) == a

Max(a, b) == IF a >= b THEN a ELSE b

\* The Size assertion with its comparison turned around.
SizeAssertion_Flipped(IntoSize, FromSize) == IntoSize = 0 \/ IntoSize <= FromSize

\* revng_assert(not Into->Size or From->Size <= Into->Size)
SizeAssertion(IntoSize, FromSize) == IntoSize = 0 \/ FromSize <= IntoSize

\* The iteration of mergeNodes without Into->InterferingInfo = Unknown.
MergeFrom_KeepsInfo(st, Into, From, ub) ==
  IF st.abort # "" THEN st
  ELSE IF From = Into
  THEN [st EXCEPT !.abort = "abort: From == Into"]
  ELSE IF From \notin st.L
  THEN [st EXCEPT !.abort = "abort: From not in Layouts"]
  ELSE IF st.NumClasses # 0
  THEN [st EXCEPT !.abort = "abort: join on a compressed map"]
  ELSE LET fix == fixPredSucc(st.S, st.P, From, Into)
           L1 == st.L \ {From}
       IN IF (fix.touched \ st.L # {}) /\ ub = "crash"
          THEN [st EXCEPT !.abort = "abort: crash"]
          ELSE IF ~SizeAssertion(st.Size[Into], st.Size[From])
          THEN [st EXCEPT !.abort = "abort: Size"]
          ELSE [st EXCEPT !.EC = join(st.EC, Into, From),
                          !.S = Destroy(fix.S, L1),
                          !.P = Destroy(fix.P, L1),
                          !.Size = [@ EXCEPT ![Into] = Max(st.Size[Into], st.Size[From])],
                          !.L = L1]

\* One iteration of the loop of mergeNodes, on the state st; st.abort names
\* the failed assertion, if any.
MergeFrom(st, Into, From, ub) ==
  IF st.abort # "" THEN st
  ELSE IF From = Into
  THEN [st EXCEPT !.abort = "abort: From == Into"]
  ELSE IF From \notin st.L
  THEN [st EXCEPT !.abort = "abort: From not in Layouts"]
  ELSE IF st.NumClasses # 0
  THEN [st EXCEPT !.abort = "abort: join on a compressed map"]
  ELSE LET fix == fixPredSucc(st.S, st.P, From, Into)
           L1 == st.L \ {From}
       IN IF (fix.touched \ st.L # {}) /\ ub = "crash"
          THEN [st EXCEPT !.abort = "abort: crash"]
          ELSE IF ~SizeAssertion(st.Size[Into], st.Size[From])
          THEN [st EXCEPT !.abort = "abort: Size"]
          ELSE [st EXCEPT !.EC = join(st.EC, Into, From),
                          !.S = Destroy(fix.S, L1),
                          !.P = Destroy(fix.P, L1),
                          !.Info = [@ EXCEPT ![Into] = "Unknown"],
                          !.Size = [@ EXCEPT ![Into] = Max(st.Size[Into], st.Size[From])],
                          !.L = L1]

RECURSIVE MergeLoop(_, _, _, _)
MergeLoop(st, ToMerge, i, ub) ==
  IF i > Len(ToMerge) THEN st
  ELSE MergeLoop(MergeFrom(st, ToMerge[1], ToMerge[i], ub), ToMerge, i + 1, ub)

\* The vectors handed to mergeNodes: any live nodes, up to MaxMerge of them,
\* or at least two distinct live nodes.
AnyLists == UNION {[1 .. k -> Layouts] : k \in 0 .. MaxMerge}

DistinctLists ==
  {l \in AnyLists : Len(l) > 1 /\ \A i, j \in 1 .. Len(l) : i # j => l[i] # l[j]}

\* Whether some live node holds an entry naming a destroyed node.
Dangling ==
  \E n \in Layouts : Neighbors(Successors[n] \cup Predecessors[n]) \ Layouts # {}

\* The outcomes of undefined behaviour that a call may meet in this state.
UBChoices == IF Dangling THEN UBOutcomes ELSE {"goes on"}

mergeNodes(Lists) ==
  /\ ~halted
  /\ \E ToMerge \in Lists, ub \in UBChoices :
       LET call == Call("mergeNodes", "merged", Null, Null, NoTag, 0, ToMerge)
           st0 == [abort |-> "", S |-> Successors, P |-> Predecessors,
                   L |-> Layouts, Size |-> Size, Info |-> InterferingInfo,
                   EC |-> EC, NumClasses |-> NumClasses]
           st == IF Len(ToMerge) > 1 THEN MergeLoop(st0, ToMerge, 2, ub)
                 ELSE [st0 EXCEPT !.abort = "abort: ToMerge.size() <= 1"]
       IN IF st.abort # ""
          THEN Abort(call, st.abort)
          ELSE /\ Successors' = st.S
               /\ Predecessors' = st.P
               /\ Layouts' = st.L
               /\ Size' = st.Size
               /\ InterferingInfo' = st.Info
               /\ EC' = st.EC
               /\ last' = call
               /\ UNCHANGED <<NID, LinkTags, NumClasses, RemovedID, NElems, writes, halted>>

\* remove that overwrites RemovedID instead of joining with it.
remove_Overwrite(ec, rid, A) == [EC |-> ec, RemovedID |-> A]

\* remove that records the first removed identifier and joins no later one.
remove_FirstOnly(ec, rid, A) ==
  IF rid # Null
  THEN [EC |-> ec, RemovedID |-> rid]
  ELSE [EC |-> ec, RemovedID |-> A]

\* VectEqClasses::remove on the map ec with the removed id rid.
remove(ec, rid, A) ==
  IF rid # Null
  THEN [EC |-> join(ec, A, rid), RemovedID |-> rid]
  ELSE [EC |-> ec, RemovedID |-> A]

removeNode ==
  /\ ~halted
  /\ \E ToRemove \in Layouts, ub \in UBChoices :
       LET call == Call("removeNode", "removed", ToRemove, Null, NoTag, 0, << >>)
           N1 == Neighbors(Successors[ToRemove])
           P1 == [n \in NodeIDs |-> IF n \in N1
                                     THEN Predecessors[n] \ EntriesOf(Predecessors[n], ToRemove)
                                     ELSE Predecessors[n]]
           N2 == Neighbors(P1[ToRemove])
           S1 == [n \in NodeIDs |-> IF n \in N2
                                     THEN Successors[n] \ EntriesOf(Successors[n], ToRemove)
                                     ELSE Successors[n]]
           L1 == Layouts \ {ToRemove}
       IN IF RemovedID # Null /\ NumClasses # 0
          THEN \* VectEqClasses::remove joins, and join asserts an uncompressed map
               Abort(call, "abort: join on a compressed map")
          ELSE IF ((N1 \cup N2) \ Layouts # {}) /\ ub = "crash"
          THEN Abort(call, "abort: crash")
          ELSE /\ EC' = remove(EC, RemovedID, ToRemove).EC
               /\ RemovedID' = remove(EC, RemovedID, ToRemove).RemovedID
               /\ Successors' = Destroy(S1, L1)
               /\ Predecessors' = Destroy(P1, L1)
               /\ Layouts' = L1
               /\ last' = call
               /\ UNCHANGED <<NID, Size, InterferingInfo, LinkTags, NumClasses, NElems,
                              writes, halted>>

\* RebasedTag that builds the Instance tag from the summed offset alone.
RebasedTag_DropsStrides(EdgeTag, OffsetToSum) ==
  IF getKind(EdgeTag) = "LK_Inheritance"
  THEN IF OffsetToSum > 0
       THEN instanceTag(OffsetExpression(OffsetToSum))
       ELSE inheritanceTag
  ELSE IF getKind(EdgeTag) = "LK_Instance"
  THEN IF getOffsetExpr(EdgeTag).Offset + OffsetToSum >= 0
       THEN instanceTag(OffsetExpression(getOffsetExpr(EdgeTag).Offset + OffsetToSum))
       ELSE NoTag
  ELSE NoTag

\* RebasedTag that keeps an Inheritance edge an Inheritance edge whatever
\* the offset to sum.
RebasedTag_NoConversion(EdgeTag, OffsetToSum) ==
  IF getKind(EdgeTag) = "LK_Inheritance"
  THEN inheritanceTag
  ELSE IF getKind(EdgeTag) = "LK_Instance"
  THEN LET NewOE == [getOffsetExpr(EdgeTag) EXCEPT !.Offset = @ + OffsetToSum]
       IN IF NewOE.Offset >= 0 THEN instanceTag(NewOE) ELSE NoTag
  ELSE NoTag

\* RebasedTag whose switch lets Equality and Pointer tags through unchanged.
RebasedTag_AnyKind(EdgeTag, OffsetToSum) ==
  IF getKind(EdgeTag) = "LK_Inheritance"
  THEN IF OffsetToSum > 0
       THEN instanceTag(OffsetExpression(OffsetToSum))
       ELSE inheritanceTag
  ELSE IF getKind(EdgeTag) = "LK_Instance"
  THEN LET NewOE == [getOffsetExpr(EdgeTag) EXCEPT !.Offset = @ + OffsetToSum]
       IN IF NewOE.Offset >= 0 THEN instanceTag(NewOE) ELSE NoTag
  ELSE EdgeTag

\* RebasedTag that asserts a non-negative offset for an Inheritance edge as
\* it does for an Instance edge.
RebasedTag_NegativeAborts(EdgeTag, OffsetToSum) ==
  IF getKind(EdgeTag) = "LK_Inheritance"
  THEN IF OffsetToSum > 0
       THEN instanceTag(OffsetExpression(OffsetToSum))
       ELSE IF OffsetToSum < 0 THEN NoTag ELSE inheritanceTag
  ELSE IF getKind(EdgeTag) = "LK_Instance"
  THEN LET NewOE == [getOffsetExpr(EdgeTag) EXCEPT !.Offset = @ + OffsetToSum]
       IN IF NewOE.Offset >= 0 THEN instanceTag(NewOE) ELSE NoTag
  ELSE NoTag

\* The tag moveEdge gives the moved edge, for a non-zero OffsetToSum; NoTag
\* when the switch ends in revng_unreachable or the offset assertion fails.
RebasedTag(EdgeTag, OffsetToSum) ==
  IF getKind(EdgeTag) = "LK_Inheritance"
  THEN IF OffsetToSum > 0
       THEN instanceTag(OffsetExpression(OffsetToSum))
       ELSE inheritanceTag
  ELSE IF getKind(EdgeTag) = "LK_Instance"
  THEN LET NewOE == [getOffsetExpr(EdgeTag) EXCEPT !.Offset = @ + OffsetToSum]
       IN IF NewOE.Offset >= 0 THEN instanceTag(NewOE) ELSE NoTag
  ELSE NoTag

\* moveEdgeWithoutSumming that moves the successor entry only.
moveEdgeWithoutSumming_SuccOnly(S, P, L, OldSrc, NewSrc, Edge, ub) ==
  [abort |-> "",
   S |-> [S EXCEPT ![OldSrc] = @ \ {Edge}, ![NewSrc] = @ \cup {Edge}],
   P |-> P]

\* moveEdgeWithoutSumming.  When NewSrc already holds the entry, insert()
\* gives the node handle back and the handle frees the node: EdgeIt dangles,
\* and reading it either crashes or still finds the freed entry's values.
moveEdgeWithoutSumming(S, P, L, OldSrc, NewSrc, Edge, ub) ==
  LET S1 == [S EXCEPT ![OldSrc] = @ \ {Edge}]
      Dup == Edge \in S1[NewSrc]
      S2 == [S1 EXCEPT ![NewSrc] = @ \cup {Edge}]
      Tgt == Edge[1]
  IN IF Dup /\ ub = "crash"
     THEN [abort |-> "abort: crash", S |-> S, P |-> P]
     ELSE IF Tgt \notin L \/ <<OldSrc, Edge[2]>> \notin P[Tgt]
     THEN [abort |-> "abort: PredHandle.empty()", S |-> S, P |-> P]
     ELSE [abort |-> "",
           S |-> S2,
           P |-> [P EXCEPT ![Tgt] = (@ \ {<<OldSrc, Edge[2]>>}) \cup {<<NewSrc, Edge[2]>>}]]

\* NullArgs that looks at OldSrc only.
NullArgs_OldSrcOnly(OldSrc, NewSrc) == OldSrc = Null

\* if (not OldSrc or not NewSrc) return;
NullArgs(OldSrc, NewSrc) == OldSrc = Null \/ NewSrc = Null

moveEdge(Srcs, Offsets) ==
  /\ ~halted
  /\ \E OldSrc \in Srcs, NewSrc \in Srcs, OffsetToSum \in Offsets :
     \E Edge \in (IF OldSrc = Null THEN {<<Null, NoTag>>} ELSE Successors[OldSrc]) :
     \E ub \in (IF OldSrc # Null /\ NewSrc # Null /\ OldSrc # NewSrc /\ OffsetToSum = 0
                    /\ Edge \in Successors[NewSrc]
                 THEN UBOutcomes ELSE {"goes on"}) :
       LET call == Call("moveEdge", "", OldSrc, NewSrc, Edge[2], OffsetToSum, <<Edge[1]>>)
       IN IF NullArgs(OldSrc, NewSrc)
          THEN /\ last' = Call("moveEdge", "null", OldSrc, NewSrc, NoTag, 0, << >>)
               /\ UNCHANGED <<graph, eqclasses, writes, halted>>
          ELSE IF OffsetToSum = 0
          THEN LET r == moveEdgeWithoutSumming(Successors, Predecessors, Layouts,
                                               OldSrc, NewSrc, Edge, ub)
               IN IF r.abort # ""
                  THEN Abort(call, r.abort)
                  ELSE /\ Successors' = r.S
                       /\ Predecessors' = r.P
                       /\ last' = [call EXCEPT !.path = "relinked"]
                       /\ UNCHANGED <<NID, Layouts, Size, InterferingInfo, LinkTags,
                                      eqclasses, writes, halted>>
          ELSE LET Tgt == Edge[1]
                   S1 == [Successors EXCEPT ![OldSrc] = @ \ {Edge}]
                   NewTag == RebasedTag(Edge[2], OffsetToSum)
                   r == addLink(S1, Predecessors, LinkTags, Layouts, NewSrc, Tgt, NewTag)
               IN IF NewTag = NoTag
                  THEN Abort(call, IF getKind(Edge[2]) = "LK_Instance"
                                   THEN "abort: NewOE.Offset < 0"
                                   ELSE "abort: unexpected edge kind")
                  ELSE IF r.abort
                  THEN Abort(call, "abort: node not in Layouts")
                  ELSE /\ NewTag.OE.Offset <= MaxOffset
                       /\ Successors' = r.S
                       /\ Predecessors' = [r.P EXCEPT ![Tgt] = @ \ {<<OldSrc, Edge[2]>>}]
                       /\ LinkTags' = r.LT
                       /\ last' = [call EXCEPT !.path = "rebased"]
                       /\ UNCHANGED <<NID, Layouts, Size, InterferingInfo, eqclasses,
                                      writes, halted>>

\* ------------------------------------------------------ VectEqClasses part
\* llvm::IntEqClasses::compress on an uncompressed map: leaders get the next
\* class number, the others the number of their leader.
RECURSIVE compressLoop(_, _, _)
compressLoop(ec, i, n) ==
  IF i = Len(ec) THEN [EC |-> ec, NumClasses |-> n]
  ELSE IF ec[i + 1] = i
       THEN compressLoop([ec EXCEPT ![i + 1] = n], i + 1, n + 1)
       ELSE compressLoop([ec EXCEPT ![i + 1] = ec[ec[i + 1] + 1]], i + 1, n)

\* compress that counts the classes and leaves their numbers as they are.
compress_NoRenumber ==
  /\ ~halted
  /\ NID > 0
  /\ EC' = EC
  /\ NumClasses' = (IF NumClasses # 0 THEN NumClasses ELSE compressLoop(EC, 0, 0).NumClasses)
  /\ last' = Ignored("compress", IF NumClasses # 0 THEN "already" ELSE "compressed")
  /\ UNCHANGED <<graph, RemovedID, NElems, writes, halted>>

compress ==
  /\ ~halted
  /\ NID > 0
  /\ LET r == IF NumClasses # 0 THEN [EC |-> EC, NumClasses |-> NumClasses]
              ELSE compressLoop(EC, 0, 0)
     IN /\ EC' = r.EC
        /\ NumClasses' = r.NumClasses
  /\ last' = Ignored("compress", IF NumClasses # 0 THEN "already" ELSE "compressed")
  /\ UNCHANGED <<graph, RemovedID, NElems, writes, halted>>

lookupEqClass(ID) == EC[ID + 1]

isRemoved(ID) ==
  IF RemovedID = Null THEN FALSE
  ELSE IF getNumClasses = 0
       THEN findLeader(ID) = findLeader(RemovedID)
       ELSE lookupEqClass(ID) = lookupEqClass(RemovedID)

haveSameEqClass(ID1, ID2) ==
  IF getNumClasses = 0
  THEN findLeader(ID1) = findLeader(ID2)
  ELSE lookupEqClass(ID1) = lookupEqClass(ID2)

getNumElements == NElems

\* ------------------------------------------- writes to the public fields
\* The builder and the steps assign LayoutTypeSystemNode::Size directly.
SetSize ==
  /\ ~halted
  /\ writes < MaxFieldWrites
  /\ \E N \in Layouts, V \in Sizes \ {0} :
       /\ Size' = [Size EXCEPT ![N] = V]
       /\ last' = Call("setSize", "written", N, Null, NoTag, V, << >>)
  /\ writes' = writes + 1
  /\ UNCHANGED <<NID, Layouts, Successors, Predecessors, InterferingInfo, LinkTags,
                 eqclasses, halted>>

\* The steps assign LayoutTypeSystemNode::InterferingInfo directly.
SetInterferingInfo ==
  /\ ~halted
  /\ writes < MaxFieldWrites
  /\ \E N \in Layouts, V \in {"AllChildrenAreInterfering", "AllChildrenAreNonInterfering"} :
       /\ InterferingInfo' = [InterferingInfo EXCEPT ![N] = V]
       /\ last' = Call("setInterferingInfo", "written", N, Null, NoTag, 0, << >>)
  /\ writes' = writes + 1
  /\ UNCHANGED <<NID, Layouts, Successors, Predecessors, Size, LinkTags,
                 eqclasses, halted>>

\* ------------------------------------------------------- verification part
\* The edge predicates, on an entry E = (neighbour, tag).
isEqualityEdge(E) == getKind(E[2]) = "LK_Equality"

isInheritanceEdge(E) == getKind(E[2]) = "LK_Inheritance"

isInstanceEdge(E) == getKind(E[2]) = "LK_Instance"

\* isInstanceOff0 that takes every Instance edge.
isInstanceOff0_AnyOffset(E) == isInstanceEdge(E)

isInstanceOff0(E) ==
  /\ isInstanceEdge(E)
  /\ getOffsetExpr(E[2]).Offset = 0
  /\ getOffsetExpr(E[2]).Strides = << >>
  /\ getOffsetExpr(E[2]).TripCounts = << >>

isPointerEdge(E) == getKind(E[2]) = "LK_Pointer"

\* isNotPointerEdge that leaves Equality edges out as well.
isNotPointerEdge_NorEquality(E) == ~isPointerEdge(E) /\ ~isEqualityEdge(E)

isNotPointerEdge(E) == ~isPointerEdge(E)

\* hasNonPointerLinkKind<LK_All> that takes edges of every kind.
hasNonPointerLinkKind_PointerToo(E) == TRUE

\* hasNonPointerLinkKind<LK_All>, the filter of isLeaf<LK_All>.
hasNonPointerLinkKind(E) == getKind(E[2]) # "LK_Pointer"

\* if (VerifyDLALog.isEnabled()) revng_check(false); return false;
Failed(Strict) == IF Strict THEN "abort" ELSE "false"

\* The successor entries of the live nodes.
Edges == UNION {Successors[N] : N \in Layouts}

\* The edges N -> M of the graph that keeps the entries of Kept: the
\* children that an EdgeFilteredGraph shows of every live node.
FilteredEdges(Kept) ==
  UNION {{<<N, E[1]>> : E \in Successors[N] \cap Kept} : N \in Layouts}

\* The nodes that a depth-first visit along the edges R adds to Seen.
RECURSIVE ReachedFrom(_, _)
ReachedFrom(Seen, R) ==
  LET More == {e[2] : e \in {x \in R : x[1] \in Seen}} \ Seen
  IN IF More = {} THEN Seen ELSE ReachedFrom(Seen \cup More, R)

\* The strongly connected component of N that scc_iterator builds.
SCCOf(N, R) == {M \in ReachedFrom({N}, R) : N \in ReachedFrom({M}, R)}

\* scc_iterator::hasCycle: more than one node, or one node that is its own
\* child.
hasCycle(SCC, R) == Cardinality(SCC) > 1 \/ \E N \in SCC : <<N, N>> \in R

\* The loop of the DAG checks: no component met from any node has a cycle.
NoSCCHasCycle(R) ==
  \A Node \in Layouts : \A M \in ReachedFrom({Node}, R) : ~hasCycle(SCCOf(M, R), R)

\* The entries that N holds on M in Mine all have their mirror in Theirs[M].
MirroredOn(N, M, Mine, Theirs) ==
  \A l \in EntriesOf(Mine[N], M) : <<N, l[2]>> \in Theirs[M]

\* NonPtrChild that counts every successor that is not a Pointer.
NonPtrChild_AnyNonPointer(E) == ~isPointerEdge(E)

\* else if (isInheritanceEdge(Edge) or isInstanceEdge(Edge)) NonPtrChildren++
NonPtrChild(E) == isInheritanceEdge(E) \/ isInstanceEdge(E)

\* The steps of verifyConsistency that can end it, named in the order in
\* which the loops take them: <<N, 1, M>> is the look-up of the predecessor
\* entries of N on M, <<N, 2, M>> that of its successor entries on M, and
\* <<N, 3, 0>> the self-edge and pointer tests of N.
LookUps ==
  UNION {{<<N, 1, l[1]>> : l \in Predecessors[N]} \cup {<<N, 2, l[1]>> : l \in Successors[N]}
         : N \in Layouts}

Precedes(a, b) ==
  \/ a[1] < b[1]
  \/ a[1] = b[1] /\ a[2] < b[2]
  \/ a[1] = b[1] /\ a[2] = b[2] /\ a[3] < b[3]

\* The look-up dereferences a node that mergeNodes or removeNode destroyed.
ReadsDestroyed(e) == e[3] # Null /\ e[3] \notin Layouts

LookUpFails(e) ==
  \/ e[3] = Null
  \/ /\ e[3] \in Layouts
     /\ IF e[2] = 1 THEN ~MirroredOn(e[1], e[3], Predecessors, Successors)
                    ELSE ~MirroredOn(e[1], e[3], Successors, Predecessors)

\* NodeTestFails without the two self-edge loops.
NodeTestFails_NoSelfEdge(N) ==
  /\ \E E \in Successors[N] : isPointerEdge(E)
  /\ \E E \in Successors[N] : NonPtrChild(E)

NodeTestFails(N) ==
  \/ N \in Neighbors(Predecessors[N])
  \/ N \in Neighbors(Successors[N])
  \/ /\ \E E \in Successors[N] : isPointerEdge(E)
     /\ \E E \in Successors[N] : NonPtrChild(E)

Failures ==
  {e \in LookUps : LookUpFails(e)} \cup {<<N, 3, 0>> : N \in {M \in Layouts : NodeTestFails(M)}}

\* verifyConsistency reads a destroyed node before any test has failed: the
\* call then either crashes or finds the destroyed sets empty.
ConsistencyReadsDestroyed ==
  \E u \in LookUps : ReadsDestroyed(u) /\ \A f \in Failures : ~Precedes(f, u)

\* The results of a check: "true", "false", or "abort" by revng_check.
verifyConsistency(Strict) ==
  IF Failures = {} /\ \A e \in LookUps : ~ReadsDestroyed(e)
  THEN "true"
  ELSE Failed(Strict)

verifyInheritanceDAG(Strict) ==
  IF verifyConsistency(Strict) # "true" THEN verifyConsistency(Strict)
  ELSE IF NoSCCHasCycle(FilteredEdges({E \in Edges : isInheritanceEdge(E)})) THEN "true"
  ELSE Failed(Strict)

verifyInstanceDAG(Strict) ==
  IF verifyConsistency(Strict) # "true" THEN verifyConsistency(Strict)
  ELSE IF NoSCCHasCycle(FilteredEdges({E \in Edges : isInstanceEdge(E)})) THEN "true"
  ELSE Failed(Strict)

verifyPointerDAG(Strict) ==
  IF verifyConsistency(Strict) # "true" THEN verifyConsistency(Strict)
  ELSE IF NoSCCHasCycle(FilteredEdges({E \in Edges : isPointerEdge(E)})) THEN "true"
  ELSE Failed(Strict)

verifyInstanceAtOffset0DAG(Strict) ==
  IF verifyConsistency(Strict) # "true" THEN verifyConsistency(Strict)
  ELSE IF NoSCCHasCycle(FilteredEdges({E \in Edges : isInstanceOff0(E)})) THEN "true"
  ELSE Failed(Strict)

verifyDAG(Strict) ==
  IF verifyConsistency(Strict) # "true" THEN verifyConsistency(Strict)
  ELSE IF verifyInheritanceDAG(Strict) # "true" THEN verifyInheritanceDAG(Strict)
  ELSE IF verifyInstanceDAG(Strict) # "true" THEN verifyInstanceDAG(Strict)
  ELSE IF NoSCCHasCycle(FilteredEdges({E \in Edges : isNotPointerEdge(E)})) THEN "true"
  ELSE Failed(Strict)

\* verifyNoEquality without its call of verifyConsistency.
verifyNoEquality_NoConsistency(Strict) ==
  IF \A Node \in Layouts : \A Edge \in Successors[Node] : ~isEqualityEdge(Edge)
  THEN "true"
  ELSE Failed(Strict)

verifyNoEquality(Strict) ==
  IF verifyConsistency(Strict) # "true" THEN verifyConsistency(Strict)
  ELSE IF \A Node \in Layouts : \A Edge \in Successors[Node] : ~isEqualityEdge(Edge)
  THEN "true"
  ELSE Failed(Strict)

\* isLeaf<LK_All>(N): child_begin == child_end in the filtered graph.
isLeaf(N) == {E \in Successors[N] : hasNonPointerLinkKind(E)} = {}

verifyLeafs(Strict) ==
  IF \A Node \in Layouts : ~(isLeaf(Node) /\ Size[Node] = 0) THEN "true"
  ELSE Failed(Strict)

\* verifyInheritanceTree that counts the children of every kind.
verifyInheritanceTree_AnyKind(Strict) ==
  IF \A Node \in Layouts : Cardinality(Successors[Node]) <= 1
  THEN "true"
  ELSE Failed(Strict)

\* (Beg != End) and (std::next(Beg) != End): two Inheritance children.
verifyInheritanceTree(Strict) ==
  IF \A Node \in Layouts :
       Cardinality({E \in Successors[Node] : isInheritanceEdge(E)}) <= 1
  THEN "true"
  ELSE Failed(Strict)

\* verifyUnions that accepts a single successor.
verifyUnions_AcceptsOne(Strict) ==
  IF \A Node \in Layouts :
       ~(/\ InterferingInfo[Node] = "AllChildrenAreInterfering"
         /\ Cardinality(Successors[Node]) < 1)
  THEN "true"
  ELSE Failed(Strict)

verifyUnions(Strict) ==
  IF \A Node \in Layouts :
       ~(/\ InterferingInfo[Node] = "AllChildrenAreInterfering"
         /\ Cardinality(Successors[Node]) <= 1)
  THEN "true"
  ELSE Failed(Strict)

\* HasSameSuccAtOffset0 that takes an edge to any target.
HasSameSuccAtOffset0_AnyTarget(Succ, L2) == isInstanceOff0(L2)

\* The lambda of verifyConflicts.
HasSameSuccAtOffset0(Succ, L2) == isInstanceOff0(L2) /\ Succ[1] = L2[1]

verifyConflicts(Strict) ==
  IF \A Node \in Layouts : \A Succ \in Successors[Node] :
       ~(/\ isInheritanceEdge(Succ)
         /\ \E L2 \in Successors[Node] : HasSameSuccAtOffset0(Succ, L2))
  THEN "true"
  ELSE Failed(Strict)

\* The checks, and those that begin with verifyConsistency.
ConsistencyChecks ==
  {"verifyConsistency", "verifyDAG", "verifyInheritanceDAG", "verifyInstanceDAG",
   "verifyPointerDAG", "verifyNoEquality", "verifyInstanceAtOffset0DAG"}

LocalChecks == {"verifyLeafs", "verifyInheritanceTree", "verifyUnions", "verifyConflicts"}

VerifyChecks == ConsistencyChecks \cup LocalChecks

\* The result of the check named Check.
Verdict(Check, Strict) ==
  CASE Check = "verifyConsistency" -> verifyConsistency(Strict)
    [] Check = "verifyDAG" -> verifyDAG(Strict)
    [] Check = "verifyInheritanceDAG" -> verifyInheritanceDAG(Strict)
    [] Check = "verifyInstanceDAG" -> verifyInstanceDAG(Strict)
    [] Check = "verifyPointerDAG" -> verifyPointerDAG(Strict)
    [] Check = "verifyNoEquality" -> verifyNoEquality(Strict)
    [] Check = "verifyInstanceAtOffset0DAG" -> verifyInstanceAtOffset0DAG(Strict)
    [] Check = "verifyLeafs" -> verifyLeafs(Strict)
    [] Check = "verifyInheritanceTree" -> verifyInheritanceTree(Strict)
    [] Check = "verifyUnions" -> verifyUnions(Strict)
    [] Check = "verifyConflicts" -> verifyConflicts(Strict)

\* A call of one of the checks, with VerifyDLALog enabled (Strict) or not.
\* The call is recorded with its result as path and the switch as off (1 is
\* enabled); a check changes nothing.
verify(Checks, Stricts) ==
  /\ ~halted
  /\ \E Check \in Checks, Strict \in Stricts :
     \E ub \in (IF Check \in ConsistencyChecks /\ ConsistencyReadsDestroyed
                THEN UBOutcomes ELSE {"goes on"}) :
       LET call == Call(Check, "", Null, Null, NoTag, IF Strict THEN 1 ELSE 0, << >>)
           r == Verdict(Check, Strict)
       IN IF ub = "crash"
          THEN Abort(call, "abort: crash")
          ELSE IF r = "abort"
          THEN Abort(call, "abort: revng_check")
          ELSE /\ last' = [call EXCEPT !.path = r]
               /\ UNCHANGED <<graph, eqclasses, writes, halted>>

\* ------------------------------------------- VectEqClasses::getEqClassID
\* IsRemoved of getEqClassID: whether EqID is the class of RemovedID.
IsRemovedClass(EqID) ==
  IF RemovedID # Null THEN lookupEqClass(RemovedID) = EqID ELSE FALSE

\* What lookupEqClass(ID) reads: EC[ID], or, when EC has no element ID, what
\* lies behind the vector (SmallVector::operator[] does not test the index
\* unless its assertion is compiled in).
ReadEqClass(ID) == IF ID < Len(EC) THEN {lookupEqClass(ID)} ELSE 0 .. MaxNodes

\* getEqClassID(ID).  The optional it returns is kept in last.off, Null
\* being the empty one.
getEqClassID(IDs) ==
  /\ ~halted
  /\ \E ID \in IDs :
     \E ub \in (IF ID < Len(EC) THEN {"goes on"} ELSE UBOutcomes) :
     \E EqID \in ReadEqClass(ID) :
       LET call == Call("getEqClassID", "", ID, Null, NoTag, 0, << >>)
       IN IF getNumClasses = 0
          THEN \* IntEqClasses::operator[] asserts that the map is compressed
               Abort(call, "abort: operator[] called before compress()")
          ELSE IF ub = "crash"
          THEN Abort(call, "abort: crash")
          ELSE /\ last' = [call EXCEPT !.path = "returned",
                                       !.off = IF IsRemovedClass(EqID) THEN Null ELSE EqID]
               /\ UNCHANGED <<graph, eqclasses, writes, halted>>

\* ---------------------------------------------------------- specifications
\* The mutation API and compress() on graphs of Inheritance links (and the
\* Instance links that moveEdge makes of them), called with live nodes.
Next ==
  \/ createArtificialLayoutType
  \/ addInheritanceLink(LivePairs)
  \/ mergeNodes(DistinctLists)
  \/ removeNode
  \/ moveEdge(Layouts, {0 - 1, 0})
  \/ compress

Spec == Init /\ [][Next]_vars

\* Equality, Instance and Pointer links and moveEdge.
NextMove ==
  \/ createArtificialLayoutType
  \/ addEqualityLink(LivePairs)
  \/ addInstanceLink(LivePairs, {OffsetExpression(0)})
  \/ addPointerLink(LivePairs)
  \/ moveEdge(Layouts, {0 - 1, 0})

SpecMove == Init /\ [][NextMove]_vars

\* Link insertion of every kind, removal and merging.
NextLinks ==
  \/ createArtificialLayoutType
  \/ addEqualityLink(LivePairs)
  \/ addInheritanceLink(LivePairs)
  \/ addInstanceLink(LivePairs, {OffsetExpression(0)})
  \/ addPointerLink(LivePairs)
  \/ removeNode
  \/ mergeNodes(DistinctLists)

SpecLinks == Init /\ [][NextLinks]_vars

\* Merging nodes of known sizes, with any vector of live nodes.
NextMerge ==
  \/ createArtificialLayoutType
  \/ SetSize
  \/ addInstanceLink(LivePairs, {OffsetExpression(0)})
  \/ mergeNodes(AnyLists)
  \/ compress

SpecMerge == Init /\ [][NextMerge]_vars

\* Strided Instance links, and edges moved with a non-zero offset to sum
\* between live nodes or nullptr.
NextRebase ==
  \/ createArtificialLayoutType
  \/ addInstanceLink(LivePairs, {StridedOE})
  \/ moveEdge(Layouts \cup {Null}, {0 - 1, 1})

SpecRebase == Init /\ [][NextRebase]_vars

\* Inheritance links and Instance links of offset 1, and edges moved with a
\* zero or positive offset to sum.
NextConvert ==
  \/ createArtificialLayoutType
  \/ addInheritanceLink(LivePairs)
  \/ addInstanceLink(LivePairs, {OffsetExpression(1)})
  \/ moveEdge(Layouts, {0, 1})

SpecConvert == Init /\ [][NextConvert]_vars

\* Links between any node pointers a caller may hold, nullptr and removed
\* nodes included.
NextArgs ==
  \/ createArtificialLayoutType
  \/ addEqualityLink(AnyPairs)
  \/ addInheritanceLink(AnyPairs)
  \/ addInstanceLink(AnyPairs, {OffsetExpression(0)})
  \/ addPointerLink(AnyPairs)
  \/ removeNode

SpecArgs == Init /\ [][NextArgs]_vars

\* verifyConsistency on graphs that Inheritance and Pointer links, moveEdge
\* and removeNode have built.
NextConsistency ==
  \/ createArtificialLayoutType
  \/ addInheritanceLink(LivePairs)
  \/ addPointerLink(LivePairs)
  \/ moveEdge(Layouts, {0 - 1, 0})
  \/ removeNode
  \/ verify({"verifyConsistency"}, BOOLEAN)

SpecConsistency == Init /\ [][NextConsistency]_vars

\* The links of the graphs handed to the checks: a link call with its two
\* nodes and its tag.
VerifyTags ==
  {equalityTag, inheritanceTag, instanceTag(OffsetExpression(0)),
   instanceTag(OffsetExpression(MaxOffset)), pointerTag}

VerifyLinks == {l \in NodeIDs \X NodeIDs \X VerifyTags : l[1] # l[2]}

\* The entries that the link call l makes: addEqualityLink links both ways.
LinkEntries(l) == IF l[3] = equalityTag THEN {l, <<l[2], l[1], l[3]>>} ELSE {l}

\* The graphs that MaxNodes createArtificialLayoutType calls and at most
\* MaxVerifyEdges link calls build.
VerifyGraphs ==
  {{}} \cup {UNION {LinkEntries(calls[i]) : i \in 1 .. MaxVerifyEdges} :
               calls \in [1 .. MaxVerifyEdges -> VerifyLinks]}

InitVerify ==
  /\ NID = MaxNodes
  /\ Layouts = NodeIDs
  /\ \E G \in VerifyGraphs :
       /\ Successors = [n \in NodeIDs |-> {<<l[2], l[3]>> : l \in {x \in G : x[1] = n}}]
       /\ Predecessors = [n \in NodeIDs |-> {<<l[1], l[3]>> : l \in {x \in G : x[2] = n}}]
       /\ LinkTags = {l[3] : l \in G}
  /\ Size = [n \in NodeIDs |-> 0]
  /\ InterferingInfo = [n \in NodeIDs |-> "Unknown"]
  /\ EC = grow(<< >>, MaxNodes)
  /\ NumClasses = 0
  /\ RemovedID = Null
  /\ NElems = MaxNodes
  /\ writes = 0
  /\ last = Ignored("init", "init")
  /\ halted = FALSE

\* The checks of the shape of the graph, with VerifyDLALog disabled, on every
\* graph of VerifyGraphs.
NextVerify ==
  verify(VerifyChecks \ {"verifyLeafs", "verifyUnions"}, {FALSE})

SpecVerify == InitVerify /\ [][NextVerify]_vars

\* The checks of the fields Size and InterferingInfo, on graphs of Instance
\* and Pointer links whose fields were written.
NextFields ==
  \/ createArtificialLayoutType
  \/ SetSize
  \/ SetInterferingInfo
  \/ addInstanceLink(LivePairs, {OffsetExpression(0)})
  \/ addPointerLink(LivePairs)
  \/ verify({"verifyLeafs", "verifyUnions"}, BOOLEAN)

SpecFields == Init /\ [][NextFields]_vars

\* verifyConflicts on graphs of Inheritance links and of Instance links with
\* every OffsetExpression of OffsetExprs.
NextConflicts ==
  \/ createArtificialLayoutType
  \/ addInheritanceLink(LivePairs)
  \/ addInstanceLink(LivePairs, OffsetExprs)
  \/ verify({"verifyConflicts"}, BOOLEAN)

SpecConflicts == Init /\ [][NextConflicts]_vars

\* The equivalence classes of the identifiers: merging, removal, compress()
\* and getEqClassID with every identifier given out and the next one, on
\* nodes whose InterferingInfo was written.
NextEqClasses ==
  \/ createArtificialLayoutType
  \/ SetInterferingInfo
  \/ mergeNodes(DistinctLists)
  \/ removeNode
  \/ compress
  \/ getEqClassID(0 .. NID)

SpecEqClasses == Init /\ [][NextEqClasses]_vars

\* Inheritance links and Instance links of offset 0, and edges moved with a
\* non-zero offset to sum, onto their own target included.
NextOntoTarget ==
  \/ createArtificialLayoutType
  \/ addInheritanceLink(LivePairs)
  \/ addInstanceLink(LivePairs, {OffsetExpression(0)})
  \/ moveEdge(Layouts, {0 - 1, 1})

SpecOntoTarget == Init /\ [][NextOntoTarget]_vars

\* ------------------------------------------------------------------ claims
\* Whether the entry (B, T) held by A on one side is mirrored by (A, T) on
\* the other side of B.
Mirrored(A, Mine, Theirs) == \A l \in Mine[A] : <<A, l[2]>> \in Theirs[l[1]]

\* C1: adjacency symmetry.  In every graph the mutation API reaches by calls
\* that return, every successor entry (B, T) of a live node A is mirrored by
\* (A, T) in B.Predecessors, and every predecessor entry by a successor entry.
C1_AdjacencySymmetry ==
  ~halted =>
    \A A \in Layouts : /\ Mirrored(A, Successors, Predecessors)
                        /\ Mirrored(A, Predecessors, Successors)

\* C2: no self-edges.  In every state the mutation API reaches, no live node
\* is in its own Successors or in its own Predecessors.
C2_NoSelfEdges ==
  ~halted =>
    \A A \in Layouts : /\ A \notin Neighbors(Successors[A])
                        /\ A \notin Neighbors(Predecessors[A])

HasPointerSucc(S, N) == \E l \in S[N] : getKind(l[2]) = "LK_Pointer"

HasAggregateSucc(S, N) ==
  \E l \in S[N] : getKind(l[2]) \in {"LK_Inheritance", "LK_Instance"}

\* No node of L has both a Pointer successor and an Inheritance or Instance
\* successor.
Exclusive(L, S) == \A N \in L : ~(HasPointerSucc(S, N) /\ HasAggregateSucc(S, N))

\* C3 as stated: every mutation that returns preserves pointer/aggregate
\* exclusivity.
C3_ExclusivityPreserved ==
  [][(Exclusive(Layouts, Successors) /\ ~halted') => Exclusive(Layouts', Successors')]_vars

\* C3 as amended: createNode, addEqualityLink and removeNode preserve
\* pointer/aggregate exclusivity (the other mutators do not enforce it).
C3_ExclusivityPreservedByRemoval ==
  [][(/\ Exclusive(Layouts, Successors)
      /\ ~halted'
      /\ last'.op \in {"createNode", "addEqualityLink", "removeNode"})
     => Exclusive(Layouts', Successors')]_vars

\* A node was removed from a graph that keeps a pointer node and an
\* aggregate node.
C3_Witness ==
  /\ ~halted
  /\ last.op = "removeNode"
  /\ \E N \in Layouts : HasPointerSucc(Successors, N)
  /\ \E N \in Layouts : HasAggregateSucc(Successors, N)

\* The nodes of a vector.
Range(list) == {list[i] : i \in 1 .. Len(list)}

\* The entries of Set with every node of M replaced by Into.
Subst(Set, M, Into) == {<<IF l[1] \in M THEN Into ELSE l[1], l[2]>> : l \in Set}

\* C4: after mergeNodes(list), list[0] holds the entries of all merged nodes,
\* with merged neighbours replaced by list[0] and the entries on list[0]
\* itself dropped; every other node has its entries on merged nodes replaced
\* by entries on list[0]; no live node names a merged-away node.
C4_MergeAdjacency ==
  [][(last'.op = "mergeNodes" /\ ~halted') =>
       LET M == Range(last'.list)
           Into == last'.list[1]
       IN /\ Successors'[Into] =
               {l \in Subst(UNION {Successors[m] : m \in M}, M, Into) : l[1] # Into}
          /\ Predecessors'[Into] =
               {l \in Subst(UNION {Predecessors[m] : m \in M}, M, Into) : l[1] # Into}
          /\ \A N \in Layouts \ M :
               /\ Successors'[N] = Subst(Successors[N], M, Into)
               /\ Predecessors'[N] = Subst(Predecessors[N], M, Into)
          /\ \A N \in Layouts' :
               Neighbors(Successors'[N] \cup Predecessors'[N]) \cap (M \ {Into}) = {}]_vars

MergeScenario(A, B, C) ==
  /\ Layouts = {A, B, C}
  /\ Size[A] = 4 /\ Size[B] = 8
  /\ Successors[A] = {<<C, instanceTag(OffsetExpression(0))>>}
  /\ Successors[B] = {<<C, instanceTag(OffsetExpression(0))>>}
  /\ Successors[C] = {}
  /\ Predecessors[C] = {<<A, instanceTag(OffsetExpression(0))>>,
                         <<B, instanceTag(OffsetExpression(0))>>}
  /\ Predecessors[A] = {} /\ Predecessors[B] = {}
  /\ NumClasses = 0

\* What the scenario expects of the surviving node Into.
MergeScenarioResult(Into, C) ==
  /\ ~halted'
  /\ Size'[Into] = 8
  /\ Successors'[Into] = {<<C, instanceTag(OffsetExpression(0))>>}
  /\ Predecessors'[C] = {<<Into, instanceTag(OffsetExpression(0))>>}

C7_MergeEqClasses ==
  [][/\ (last'.op = "mergeNodes" /\ Len(last'.list) <= 1) => halted'
     /\ (last'.op = "mergeNodes" /\ ~halted') =>
          \A a, b \in Range(last'.list) : haveSameEqClass(a, b)'
     /\ \A a, b \in Created : haveSameEqClass(a, b) => haveSameEqClass(a, b)']_vars

\* A merged-away identifier shares the class of a live one on a compressed
\* map.
C7_Witness ==
  /\ ~halted
  /\ NumClasses # 0
  /\ \E a \in Created \ Layouts, b \in Layouts : haveSameEqClass(a, b)

\* C8: removeNode(n) takes n out of the live nodes, leaves no live node
\* with an entry on n, and changes no other entry, Size or InterferingInfo.
C8_RemoveNodeEffect ==
  [][(last'.op = "removeNode" /\ ~halted') =>
       LET n == last'.src
       IN /\ n \in Layouts /\ n \notin Layouts'
          /\ Layouts' = Layouts \ {n}
          /\ \A m \in Layouts' :
               /\ n \notin Neighbors(Successors'[m] \cup Predecessors'[m])
               /\ Successors'[m] = Successors[m] \ EntriesOf(Successors[m], n)
               /\ Predecessors'[m] = Predecessors[m] \ EntriesOf(Predecessors[m], n)
               /\ Size'[m] = Size[m]
               /\ InterferingInfo'[m] = InterferingInfo[m]]_vars

\* C9: right after removeNode(A) isRemoved(A.ID) holds, and an identifier
\* for which isRemoved holds keeps it in every later step.
C9_RemovedForever ==
  [][/\ (last'.op = "removeNode" /\ ~halted') =>
          \A id \in Created : id = last'.src => isRemoved(id)'
     /\ \A id \in Created : isRemoved(id) => isRemoved(id)']_vars

\* Two identifiers are removed and the map is compressed.
C9_Witness ==
  /\ ~halted
  /\ NumClasses # 0
  /\ \E a, b \in Created : a # b /\ isRemoved(a) /\ isRemoved(b)

\* C10: moveEdge(OldSrc, NewSrc, (Tgt, Tag), 0) with OldSrc # NewSrc takes
\* (Tgt, Tag) from OldSrc.Successors to NewSrc.Successors and replaces
\* (OldSrc, Tag) by (NewSrc, Tag) in Tgt.Predecessors, and changes nothing
\* else.
C10_PureRelink ==
  [][(/\ last'.op = "moveEdge" /\ last'.path # "null" /\ ~halted'
      /\ last'.off = 0 /\ last'.src # last'.tgt) =>
       LET OldSrc == last'.src
           NewSrc == last'.tgt
           Tgt == last'.list[1]
           Tag == last'.tag
       IN /\ <<Tgt, Tag>> \in Successors[OldSrc]
          /\ <<Tgt, Tag>> \notin Successors'[OldSrc]
          /\ <<Tgt, Tag>> \in Successors'[NewSrc]
          /\ <<OldSrc, Tag>> \notin Predecessors'[Tgt]
          /\ <<NewSrc, Tag>> \in Predecessors'[Tgt]
          /\ Successors' = [Successors EXCEPT ![OldSrc] = @ \ {<<Tgt, Tag>>},
                                                ![NewSrc] = @ \cup {<<Tgt, Tag>>}]
          /\ Predecessors' = [Predecessors EXCEPT
                                ![Tgt] = (@ \ {<<OldSrc, Tag>>}) \cup {<<NewSrc, Tag>>}]
          /\ UNCHANGED <<NID, Layouts, Size, InterferingInfo, LinkTags, eqclasses>>]_vars

\* An edge was relinked from one node to another one.
C10_Witness ==
  /\ ~halted
  /\ last.op = "moveEdge"
  /\ last.path = "relinked"
  /\ last.src # last.tgt
  /\ <<last.list[1], last.tag>> \in Successors[last.tgt]
  /\ <<last.tgt, last.tag>> \in Predecessors[last.list[1]]

\* C11: moveEdge of an Instance edge OldSrc -> Tgt of offset k with a
\* non-zero OffsetToSum d to NewSrc # Tgt aborts when k + d < 0; otherwise
\* it takes the edge from OldSrc.Successors and (OldSrc, tag) from
\* Tgt.Predecessors, and NewSrc -> Tgt holds an Instance edge of offset
\* k + d with the strides and trip counts of the moved tag.
C11_InstanceRebasing ==
  [][(/\ last'.op = "moveEdge" /\ last'.path # "null"
      /\ last'.off # 0
      /\ getKind(last'.tag) = "LK_Instance"
      /\ last'.list[1] # last'.tgt) =>
       LET OldSrc == last'.src
           NewSrc == last'.tgt
           Tgt == last'.list[1]
           Tag == last'.tag
           k == getOffsetExpr(Tag).Offset
           d == last'.off
           NewTag == [Kind |-> "LK_Instance",
                      OE |-> [Offset |-> k + d,
                              Strides |-> getOffsetExpr(Tag).Strides,
                              TripCounts |-> getOffsetExpr(Tag).TripCounts]]
       IN /\ halted' <=> (k + d < 0)
          /\ ~halted' =>
               /\ <<Tgt, Tag>> \in Successors[OldSrc]
               /\ <<Tgt, Tag>> \notin Successors'[OldSrc]
               /\ <<OldSrc, Tag>> \notin Predecessors'[Tgt]
               /\ <<Tgt, NewTag>> \in Successors'[NewSrc]
               /\ <<NewSrc, NewTag>> \in Predecessors'[Tgt]]_vars

\* A strided Instance edge was rebased from one node to another.
C11_Witness ==
  /\ ~halted
  /\ last.op = "moveEdge"
  /\ last.path = "rebased"
  /\ getKind(last.tag) = "LK_Instance"
  /\ getOffsetExpr(last.tag).Strides # << >>
  /\ last.src # last.tgt
  /\ \E l \in Successors[last.tgt] :
       /\ l[1] = last.list[1]
       /\ getOffsetExpr(l[2]).Offset = getOffsetExpr(last.tag).Offset + last.off
       /\ getOffsetExpr(l[2]).Strides # << >>

\* C12 as stated: moveEdge of an Inheritance edge OldSrc -> Tgt to NewSrc
\* with OffsetToSum d > 0 gives NewSrc -> Tgt an Instance edge of offset d
\* with no strides and adds no Inheritance edge NewSrc -> Tgt; with d = 0 the
\* moved edge stays an Inheritance edge; either way the Inheritance edge
\* OldSrc -> Tgt is gone from OldSrc.Successors and from Tgt.Predecessors.
C12_InheritanceConversion ==
  [][(/\ last'.op = "moveEdge" /\ last'.path # "null" /\ ~halted'
      /\ last'.off >= 0
      /\ getKind(last'.tag) = "LK_Inheritance") =>
       LET OldSrc == last'.src
           NewSrc == last'.tgt
           Tgt == last'.list[1]
           d == last'.off
           NewTag == IF d > 0 THEN instanceTag(OffsetExpression(d)) ELSE inheritanceTag
       IN /\ <<Tgt, inheritanceTag>> \in Successors[OldSrc]
          /\ <<Tgt, NewTag>> \in Successors'[NewSrc]
          /\ <<NewSrc, NewTag>> \in Predecessors'[Tgt]
          /\ d > 0 => (<<Tgt, inheritanceTag>> \in Successors'[NewSrc]
                         => <<Tgt, inheritanceTag>> \in Successors[NewSrc])
          /\ <<Tgt, inheritanceTag>> \notin Successors'[OldSrc]
          /\ <<OldSrc, inheritanceTag>> \notin Predecessors'[Tgt]]_vars

\* C12 as amended: with d > 0 the Inheritance edge OldSrc -> Tgt is gone
\* from both sides, no Inheritance edge NewSrc -> Tgt is added, and, when
\* NewSrc # Tgt, NewSrc -> Tgt holds an Instance edge of offset d with no
\* strides (when NewSrc = Tgt no edge is added); with d = 0 NewSrc -> Tgt
\* holds the Inheritance edge, and the edge OldSrc -> Tgt is gone from both
\* sides when OldSrc # NewSrc (when OldSrc = NewSrc the graph is unchanged).
C12_InheritanceConversionDistinct ==
  [][(/\ last'.op = "moveEdge" /\ last'.path # "null" /\ ~halted'
      /\ last'.off >= 0
      /\ getKind(last'.tag) = "LK_Inheritance") =>
       LET OldSrc == last'.src
           NewSrc == last'.tgt
           Tgt == last'.list[1]
           d == last'.off
           Gone == /\ <<Tgt, inheritanceTag>> \notin Successors'[OldSrc]
                   /\ <<OldSrc, inheritanceTag>> \notin Predecessors'[Tgt]
       IN /\ <<Tgt, inheritanceTag>> \in Successors[OldSrc]
          /\ d > 0 =>
               /\ Gone
               /\ <<Tgt, inheritanceTag>> \in Successors'[NewSrc]
                    => <<Tgt, inheritanceTag>> \in Successors[NewSrc]
               /\ IF NewSrc # Tgt
                  THEN /\ <<Tgt, instanceTag(OffsetExpression(d))>> \in Successors'[NewSrc]
                       /\ <<NewSrc, instanceTag(OffsetExpression(d))>> \in Predecessors'[Tgt]
                  ELSE /\ Successors' = [Successors EXCEPT ![OldSrc] = @ \ {<<Tgt, last'.tag>>}]
                       /\ Predecessors' = [Predecessors EXCEPT ![Tgt] = @ \ {<<OldSrc, last'.tag>>}]
          /\ d = 0 =>
               /\ <<Tgt, inheritanceTag>> \in Successors'[NewSrc]
               /\ <<NewSrc, inheritanceTag>> \in Predecessors'[Tgt]
               /\ IF OldSrc # NewSrc
                  THEN Gone
                  ELSE UNCHANGED <<Successors, Predecessors>>]_vars

\* An Inheritance edge was moved to another node with a positive offset and
\* is an Instance edge there.
C12_Witness ==
  /\ ~halted
  /\ last.op = "moveEdge"
  /\ last.path = "rebased"
  /\ getKind(last.tag) = "LK_Inheritance"
  /\ last.off > 0
  /\ last.src # last.tgt
  /\ last.list[1] # last.tgt
  /\ <<last.list[1], instanceTag(OffsetExpression(last.off))>> \in Successors[last.tgt]

\* C13: moveEdge with a non-zero OffsetToSum on an Equality edge or on a
\* Pointer edge aborts, and leaves no rebased edge on NewSrc.
C13_NoRebasedEqualityPointer ==
  [][(/\ last'.op = "moveEdge" /\ last'.path # "null"
      /\ last'.off # 0
      /\ getKind(last'.tag) \in {"LK_Equality", "LK_Pointer"}) =>
       /\ halted'
       /\ <<last'.list[1], last'.tag>> \in Successors[last'.src]
       /\ Successors'[last'.tgt] = Successors[last'.tgt]
       /\ Predecessors' = Predecessors]_vars

\* moveEdge ended at the unreachable kind of a Pointer edge.
C13_Witness ==
  /\ halted
  /\ last.op = "moveEdge"
  /\ last.off # 0
  /\ getKind(last.tag) = "LK_Pointer"
  /\ last.path = "abort: unexpected edge kind"

\* C14 as stated: moveEdge with a null OldSrc or a null NewSrc aborts.
C14_NullArgsAbort ==
  [][(last'.op = "moveEdge" /\ (last'.src = Null \/ last'.tgt = Null)) => halted']_vars

\* C14 as amended: moveEdge with a null OldSrc or a null NewSrc returns
\* normally and changes nothing.
C14_NullArgsIgnored ==
  [][(last'.op = "moveEdge" /\ (last'.src = Null \/ last'.tgt = Null)) =>
       /\ ~halted'
       /\ UNCHANGED <<graph, eqclasses>>]_vars

\* moveEdge was called on a node that holds an edge, with a null NewSrc.
C14_Witness ==
  /\ ~halted
  /\ last.op = "moveEdge"
  /\ last.src \in Layouts
  /\ last.tgt = Null
  /\ Successors[last.src] # {}

\* The four link calls.
AddLinkOps == {"addEqualityLink", "addInheritanceLink", "addInstanceLink", "addPointerLink"}

\* Whether pointer N is neither nullptr nor a node of Layouts.
NotLive(N) == N # Null /\ N \notin Layouts

\* C15 as stated: a link call with a non-null Src or Tgt that is not live
\* aborts and adds no entry.
C15_NonLiveAborts ==
  [][(last'.op \in AddLinkOps /\ (NotLive(last'.src) \/ NotLive(last'.tgt))) =>
       /\ halted'
       /\ UNCHANGED <<Successors, Predecessors>>]_vars

\* C15 as amended: a link call with non-null, distinct Src and Tgt of which
\* one is not live aborts and adds no entry.
C15_NonLiveDistinctAborts ==
  [][(/\ last'.op \in AddLinkOps
      /\ last'.src # Null /\ last'.tgt # Null /\ last'.src # last'.tgt
      /\ (NotLive(last'.src) \/ NotLive(last'.tgt))) =>
       /\ halted'
       /\ UNCHANGED <<Successors, Predecessors>>]_vars

\* A link call from a live node to a removed node aborted.
C15_Witness ==
  /\ halted
  /\ last.op \in AddLinkOps
  /\ last.src \in Layouts
  /\ NotLive(last.tgt)

\* C16: a link call with a null Src, a null Tgt or Src = Tgt returns no tag
\* and not new, and changes no adjacency set nor LinkTags.
C16_NullOrSelfIgnored ==
  [][(/\ last'.op \in AddLinkOps
      /\ (last'.src = Null \/ last'.tgt = Null \/ last'.src = last'.tgt)) =>
       /\ ~halted'
       /\ last'.path = "null or self"
       /\ last'.tag = NoTag
       /\ UNCHANGED <<graph, eqclasses>>]_vars

\* A link call from a live node to itself returned.
C16_Witness ==
  /\ ~halted
  /\ last.op \in AddLinkOps
  /\ last.src \in Layouts
  /\ last.src = last.tgt
  /\ last.path = "null or self"

\* C17: for live distinct Src and Tgt a link call that returns adds
\* (Tgt, tag) to Src.Successors and (Src, tag) to Tgt.Predecessors (and the
\* opposite entries, for addEqualityLink) and nothing else, with the tag
\* stored in LinkTags; it returns new exactly when one of the two entries
\* was missing, and when it returns not new, as an immediately repeated call
\* does, it changes nothing.
C17_LinkIdempotent ==
  [][(/\ last'.op \in AddLinkOps /\ ~halted'
      /\ last'.src \in Layouts /\ last'.tgt \in Layouts
      /\ last'.src # last'.tgt) =>
       LET Src == last'.src
           Tgt == last'.tgt
           T == last'.tag
           Held == <<Tgt, T>> \in Successors[Src] /\ <<Src, T>> \in Predecessors[Tgt]
           Repeated == /\ last.op = last'.op /\ last.src = Src /\ last.tgt = Tgt
                       /\ last.tag = T
           Both == last'.op = "addEqualityLink"
       IN /\ T # NoTag /\ T \in LinkTags'
          /\ <<Tgt, T>> \in Successors'[Src]
          /\ <<Src, T>> \in Predecessors'[Tgt]
          /\ last'.path = (IF Held THEN "not new" ELSE "new")
          /\ Successors' =
               [n \in NodeIDs |->
                  Successors[n]
                    \cup (IF n = Src THEN {<<Tgt, T>>} ELSE {})
                    \cup (IF Both /\ n = Tgt THEN {<<Src, T>>} ELSE {})]
          /\ Predecessors' =
               [n \in NodeIDs |->
                  Predecessors[n]
                    \cup (IF n = Tgt THEN {<<Src, T>>} ELSE {})
                    \cup (IF Both /\ n = Src THEN {<<Tgt, T>>} ELSE {})]
          /\ Held => UNCHANGED <<graph, eqclasses>>
          /\ Repeated => (last'.path = "not new" /\ UNCHANGED <<graph, eqclasses>>)]_vars

\* A link call was repeated and returned not new.
C17_Witness ==
  /\ ~halted
  /\ last.op \in AddLinkOps
  /\ last.path = "not new"
  /\ last.src \in Layouts /\ last.tgt \in Layouts
  /\ <<last.tgt, last.tag>> \in Successors[last.src]
  /\ <<last.src, last.tag>> \in Predecessors[last.tgt]

\* C18: addEqualityLink on live distinct A and B never aborts: it leaves
\* Equality entries A -> B and B -> A of one tag on both sides and returns
\* the result that both insertions gave.
C18_EqualityLinkNeverAborts ==
  [][(/\ last'.op = "addEqualityLink"
      /\ last'.src \in Layouts /\ last'.tgt \in Layouts
      /\ last'.src # last'.tgt) =>
       LET A == last'.src
           B == last'.tgt
       IN /\ ~halted'
          /\ last'.tag = equalityTag
          /\ <<B, equalityTag>> \in Successors'[A] \cap Predecessors'[A]
          /\ <<A, equalityTag>> \in Successors'[B] \cap Predecessors'[B]]_vars

\* The tags that the adjacency entries of the live nodes refer to.
EntryTags == UNION {{l[2] : l \in Successors[n] \cup Predecessors[n]} : n \in Layouts}

\* C19: every tag that an adjacency entry refers to is a tag stored in
\* LinkTags, which holds one tag per value, so that entries of equal tags
\* refer to one stored tag; tags made by moveEdge are stored as well.
C19_TagsStored == EntryTags \subseteq LinkTags

\* Two entries between different node pairs refer to one Instance tag, one
\* of them made by moveEdge.
C19_Witness ==
  /\ ~halted
  /\ last.op = "moveEdge"
  /\ last.path = "rebased"
  /\ \E n, m \in Layouts : \E l \in Successors[n], k \in Successors[m] :
       /\ <<n, l[1]>> # <<m, k[1]>>
       /\ l[2] = k[2]
       /\ l[2] = RebasedTag(last.tag, last.off)
       /\ getKind(l[2]) = "LK_Instance"

\* C20: createArtificialLayoutType returns a node that was not live, whose
\* ID is the number of nodes created before it, with Size 0, InterferingInfo
\* Unknown and no entries, alone in its class; NID and getNumElements() are
\* equal, grow by one with every node created and change in no other step.
C20_NodeIdentifiers ==
  [][/\ NID = getNumElements /\ NID' = getNumElements'
     /\ Len(EC) = NID /\ Layouts \subseteq Created
     /\ IF last'.op = "createNode" /\ ~halted'
        THEN \E k \in NodeIDs :
               /\ k = last'.src /\ k = NID /\ NID' = k + 1
               /\ k \notin Layouts /\ Layouts' = Layouts \cup {k}
               /\ Size'[k] = 0 /\ InterferingInfo'[k] = "Unknown"
               /\ Successors'[k] = {} /\ Predecessors'[k] = {}
               /\ \A j \in 0 .. k : haveSameEqClass(k, j)' <=> j = k
        ELSE NID' = NID]_vars

\* A third node was created after a node was removed.
C20_Witness ==
  /\ ~halted
  /\ last.op = "createNode"
  /\ last.src = 2
  /\ RemovedID # Null
  /\ Layouts # Created

\* What C21 asks of a live node N.
ConsistentNode(N) ==
  /\ \A l \in Predecessors[N] \cup Successors[N] : l[1] # Null
  /\ Mirrored(N, Predecessors, Successors)
  /\ Mirrored(N, Successors, Predecessors)
  /\ N \notin Neighbors(Successors[N]) \cup Neighbors(Predecessors[N])
  /\ ~(HasPointerSucc(Successors, N) /\ HasAggregateSucc(Successors, N))

\* C21: verifyConsistency returns true exactly when every live node has all
\* its entries mirrored on the other side of the neighbour, no null
\* neighbour, no entry on itself, and not both a Pointer successor and an
\* Inheritance or Instance successor.
C21_VerifyConsistency ==
  last.op = "verifyConsistency" =>
    (last.path = "true" <=> \A N \in Layouts : ConsistentNode(N))

\* verifyConsistency returned false on a graph whose only defect is an entry
\* of a node on itself.
C21_Witness ==
  /\ ~halted
  /\ last.op = "verifyConsistency"
  /\ last.path = "false"
  /\ \E N \in Layouts : N \in Neighbors(Successors[N])
  /\ \A N \in Layouts : /\ Mirrored(N, Predecessors, Successors)
                        /\ Mirrored(N, Successors, Predecessors)
  /\ Exclusive(Layouts, Successors)

\* verifyConsistency returned true on a graph with a node that has a Pointer
\* successor and an Equality successor.
C21_EqualityNotCounted ==
  /\ ~halted
  /\ last.op = "verifyConsistency"
  /\ last.path = "true"
  /\ \E N \in Layouts : /\ HasPointerSucc(Successors, N)
                        /\ \E l \in Successors[N] : getKind(l[2]) = "LK_Equality"

\* The edges N -> M of the live nodes whose tag is one of Tags.
TaggedEdges(Tags) ==
  UNION {{<<N, l[1]>> : l \in {x \in Successors[N] : x[2] \in Tags}} : N \in Layouts}

\* No cycle among the edges R: the live nodes can be ranked so that every
\* edge goes up.
Acyclic(R) ==
  \E rank \in [Layouts -> 1 .. Cardinality(Layouts)] :
    \A e \in R : e[2] \in Layouts /\ rank[e[1]] < rank[e[2]]

\* The tags of the edges that each per-kind DAG check looks at.
InstanceTags == {instanceTag(OE) : OE \in OffsetExprs}

DAGCheckTags(Check) ==
  CASE Check = "verifyInheritanceDAG" -> {inheritanceTag}
    [] Check = "verifyInstanceDAG" -> InstanceTags
    [] Check = "verifyPointerDAG" -> {pointerTag}
    [] Check = "verifyInstanceAtOffset0DAG" -> {instanceTag(OffsetExpression(0))}

DAGChecks ==
  {"verifyInheritanceDAG", "verifyInstanceDAG", "verifyPointerDAG",
   "verifyInstanceAtOffset0DAG"}

\* C22 as stated: each per-kind DAG check returns true exactly when the
\* graph restricted to the edges of its kind has no cycle.
C22_DAGChecks ==
  last.op \in DAGChecks =>
    (last.path = "true" <=> Acyclic(TaggedEdges(DAGCheckTags(last.op))))

\* C22 as amended: each per-kind DAG check returns true exactly when
\* verifyConsistency holds of the graph and the graph restricted to the
\* edges of its kind has no cycle.
C22_ConsistentDAGChecks ==
  last.op \in DAGChecks =>
    (last.path = "true" <=> /\ \A N \in Layouts : ConsistentNode(N)
                            /\ Acyclic(TaggedEdges(DAGCheckTags(last.op))))

\* verifyInstanceAtOffset0DAG returned true on a cycle of three Instance
\* edges of which one has a non-zero offset.
C22_Witness ==
  /\ ~halted
  /\ last.op = "verifyInstanceAtOffset0DAG"
  /\ last.path = "true"
  /\ \E A, B, C \in Layouts :
       /\ Cardinality({A, B, C}) = 3
       /\ <<B, instanceTag(OffsetExpression(0))>> \in Successors[A]
       /\ <<C, instanceTag(OffsetExpression(0))>> \in Successors[B]
       /\ <<A, instanceTag(OffsetExpression(MaxOffset))>> \in Successors[C]

\* C23: verifyDAG returns true exactly when verifyConsistency holds of the
\* graph and the Equality, Inheritance and Instance edges taken together
\* have no cycle; Pointer edges close no cycle.
C23_VerifyDAG ==
  last.op = "verifyDAG" =>
    (last.path = "true" <=>
       /\ \A N \in Layouts : ConsistentNode(N)
       /\ Acyclic(TaggedEdges({equalityTag, inheritanceTag} \cup InstanceTags)))

\* verifyDAG returned true on a graph with a cycle of an Inheritance edge
\* and a Pointer edge.
C23_Witness ==
  /\ ~halted
  /\ last.op = "verifyDAG"
  /\ last.path = "true"
  /\ \E A, B \in Layouts :
       /\ <<B, inheritanceTag>> \in Successors[A]
       /\ <<A, pointerTag>> \in Successors[B]

\* verifyDAG returned false on a cycle of an Inheritance edge and an
\* Instance edge, the only edges of the graph.
C23_MixedCycleFails ==
  /\ ~halted
  /\ last.op = "verifyDAG"
  /\ last.path = "false"
  /\ \E A, B \in Layouts :
       /\ Successors[A] = {<<B, inheritanceTag>>}
       /\ Successors[B] = {<<A, instanceTag(OffsetExpression(0))>>}
       /\ \A N \in Layouts \ {A, B} : Successors[N] = {}

\* C24 as stated: verifyLeafs fails exactly when some live node without any
\* outgoing edge has Size 0.
C24_LeafsOfAnyKind ==
  last.op = "verifyLeafs" =>
    (last.path # "true" <=> \E N \in Layouts : Successors[N] = {} /\ Size[N] = 0)

\* C24 as amended: verifyLeafs fails exactly when some live node without any
\* outgoing Equality, Inheritance or Instance edge has Size 0; a node whose
\* outgoing edges are all Pointer edges counts as a leaf.
C24_LeafsButForPointers ==
  last.op = "verifyLeafs" =>
    (last.path # "true" <=>
       \E N \in Layouts :
         /\ \A l \in Successors[N] : getKind(l[2]) = "LK_Pointer"
         /\ Size[N] = 0)

\* verifyLeafs returned false on a graph whose only node of Size 0 has a
\* Pointer successor.
C24_Witness ==
  /\ ~halted
  /\ last.op = "verifyLeafs"
  /\ last.path = "false"
  /\ \E N \in Layouts :
       /\ Size[N] = 0
       /\ HasPointerSucc(Successors, N)
       /\ \A M \in Layouts \ {N} : Size[M] # 0

\* C25: verifyConflicts fails exactly when some live node has an Inheritance
\* edge and an Instance edge with offset 0 and no strides or trip counts to
\* one target; an Instance edge with another offset or with strides to the
\* target of an Inheritance edge does not make it fail.
C25_VerifyConflicts ==
  last.op = "verifyConflicts" =>
    (last.path # "true" <=>
       \E N \in Layouts, T \in NodeIDs :
         /\ <<T, inheritanceTag>> \in Successors[N]
         /\ <<T, instanceTag(OffsetExpression(0))>> \in Successors[N])

\* verifyConflicts returned true on a node with an Inheritance edge and a
\* strided Instance edge of offset 0 to one target.
C25_Witness ==
  /\ ~halted
  /\ last.op = "verifyConflicts"
  /\ last.path = "true"
  /\ \E N, T \in Layouts :
       Successors[N] = {<<T, inheritanceTag>>, <<T, instanceTag(StridedOE)>>}

\* verifyConflicts returned false after addInheritanceLink(A, B) and
\* addInstanceLink(A, B, offset 0).
C25_Scenario ==
  /\ ~halted
  /\ last.op = "verifyConflicts"
  /\ last.path = "false"
  /\ \E A, B \in Layouts :
       Successors[A] = {<<B, inheritanceTag>>, <<B, instanceTag(OffsetExpression(0))>>}

\* Some live node has an outgoing Equality edge.
EqualityRemains == \E N \in Layouts : \E l \in Successors[N] : l[2] = equalityTag

\* C26 as stated: verifyNoEquality fails exactly when some live node has an
\* outgoing Equality edge.
C26_NoEqualityOnly ==
  last.op = "verifyNoEquality" => (last.path # "true" <=> EqualityRemains)

\* C26 as amended: verifyNoEquality returns true exactly when
\* verifyConsistency holds of the graph and no live node has an outgoing
\* Equality edge.
C26_ConsistentNoEquality ==
  last.op = "verifyNoEquality" =>
    (last.path = "true" <=> /\ \A N \in Layouts : ConsistentNode(N)
                            /\ ~EqualityRemains)

\* verifyNoEquality returned false on a graph without Equality edges, in
\* which a node has a Pointer successor and an Instance successor.
C26_Witness ==
  /\ ~halted
  /\ last.op = "verifyNoEquality"
  /\ last.path = "false"
  /\ ~EqualityRemains
  /\ \E N \in Layouts : HasPointerSucc(Successors, N) /\ HasAggregateSucc(Successors, N)

\* C27: verifyInheritanceTree returns true exactly when every live node has
\* at most one outgoing Inheritance edge, whatever its incoming edges and
\* its edges of other kinds.
C27_VerifyInheritanceTree ==
  last.op = "verifyInheritanceTree" =>
    (last.path = "true" <=>
       \A N \in Layouts :
         Cardinality({T \in NodeIDs : <<T, inheritanceTag>> \in Successors[N]}) <= 1)

\* verifyInheritanceTree returned true on a graph with a node that has two
\* incoming Inheritance edges and a node that has an Inheritance successor
\* and a successor of another kind.
C27_Witness ==
  /\ ~halted
  /\ last.op = "verifyInheritanceTree"
  /\ last.path = "true"
  /\ \E N \in Layouts :
       Cardinality({l \in Predecessors[N] : l[2] = inheritanceTag}) = 2
  /\ \E N \in Layouts :
       /\ \E l \in Successors[N] : l[2] = inheritanceTag
       /\ \E l \in Successors[N] : l[2] # inheritanceTag

\* C28: verifyUnions returns true exactly when every live node whose
\* InterferingInfo is AllChildrenAreInterfering has more than one successor
\* entry; nodes of the other two classes never make it fail.
C28_VerifyUnions ==
  last.op = "verifyUnions" =>
    (last.path = "true" <=>
       \A N \in Layouts :
         InterferingInfo[N] = "AllChildrenAreInterfering" => Cardinality(Successors[N]) > 1)

\* verifyUnions returned false because of a node classified
\* AllChildrenAreInterfering with one successor, on a graph that also has a
\* node classified AllChildrenAreNonInterfering without successors.
C28_Witness ==
  /\ ~halted
  /\ last.op = "verifyUnions"
  /\ last.path = "false"
  /\ \E N, M \in Layouts :
       /\ InterferingInfo[N] = "AllChildrenAreInterfering"
       /\ Cardinality(Successors[N]) = 1
       /\ InterferingInfo[M] = "AllChildrenAreNonInterfering"
       /\ Successors[M] = {}

\* C29: a check that the graph satisfies returns true whether VerifyDLALog
\* is enabled or not; a check that the graph violates returns false and the
\* process goes on when it is disabled, and aborts the process when it is
\* enabled.  The graphs that violate a check are those on which it does not
\* return true with VerifyDLALog disabled.
C29_StrictVerification ==
  last.op \in VerifyChecks =>
    IF Verdict(last.op, FALSE) = "true"
    THEN ~halted /\ last.path = "true"
    ELSE IF last.off = 0
    THEN ~halted /\ last.path = "false"
    ELSE halted

\* C30: after compress() the class numbers of the identifiers
\* 0 .. getNumElements() - 1 are exactly 0 .. k - 1 for the k classes, and
\* haveSameEqClass(i, j) and isRemoved(i) answer for all identifiers as they
\* did immediately before.
C30_CompressPreserves ==
  [][(last'.op = "compress" /\ ~halted') =>
       LET IDs == 0 .. (getNumElements - 1)
           k == Cardinality({findLeader(i) : i \in IDs})
       IN /\ getNumElements' = getNumElements
          /\ NumClasses = 0 => getNumClasses' = k
          /\ \A c \in 0 .. (getNumClasses' - 1) : \E i \in IDs : lookupEqClass(i)' = c
          /\ \A i \in IDs :
               /\ lookupEqClass(i)' \in 0 .. (getNumClasses' - 1)
               /\ isRemoved(i)' <=> isRemoved(i)
               /\ \A j \in IDs : haveSameEqClass(i, j)' <=> haveSameEqClass(i, j)]_vars

\* compress() has numbered two classes of three identifiers, of which the
\* class of two is the removed one.
C30_Witness ==
  /\ ~halted
  /\ last.op = "compress"
  /\ last.path = "compressed"
  /\ getNumElements = 3
  /\ getNumClasses = 2
  /\ Cardinality({i \in 0 .. 2 : isRemoved(i)}) = 2

\* C31: on a compressed map getEqClassID(ID) returns: the empty optional when
\* ID is not below getNumElements() or is removed, and the class of ID
\* otherwise; two identifiers that are not removed get the same class id
\* exactly when haveSameEqClass holds of them.
C31_GetEqClassID ==
  [][(last'.op = "getEqClassID" /\ getNumClasses # 0) =>
       LET ID == last'.src
       IN /\ ~halted'
          /\ IF ID >= getNumElements THEN last'.off = Null
             ELSE /\ isRemoved(ID) => last'.off = Null
                  /\ ~isRemoved(ID) =>
                       /\ last'.off = lookupEqClass(ID)
                       /\ \A Other \in 0 .. (getNumElements - 1) :
                            ~isRemoved(Other) =>
                              ((last'.off = lookupEqClass(Other))
                                 <=> haveSameEqClass(ID, Other))]_vars

\* The same for the identifiers below getNumElements() alone.
C31_InBounds ==
  [][(last'.op = "getEqClassID" /\ getNumClasses # 0 /\ last'.src < getNumElements) =>
       LET ID == last'.src
       IN /\ ~halted'
          /\ isRemoved(ID) => last'.off = Null
          /\ ~isRemoved(ID) =>
               /\ last'.off = lookupEqClass(ID)
               /\ \A Other \in 0 .. (getNumElements - 1) :
                    ~isRemoved(Other) =>
                      ((last'.off = lookupEqClass(Other)) <=> haveSameEqClass(ID, Other))]_vars

\* C32: every mergeNodes call that completes leaves list[0] with
\* InterferingInfo Unknown, whatever the InterferingInfo of the nodes of the
\* list was, and leaves the InterferingInfo of every node outside the list
\* as it was.
C32_MergeResetsInterferingInfo ==
  [][(last'.op = "mergeNodes" /\ ~halted') =>
       /\ InterferingInfo'[last'.list[1]] = "Unknown"
       /\ \A N \in Layouts \ Range(last'.list) : InterferingInfo'[N] = InterferingInfo[N]]_vars

\* A node whose InterferingInfo had been written was merged into another
\* one, next to a node outside the list that keeps the value written to it.
C32_Witness ==
  /\ ~halted
  /\ last.op = "mergeNodes"
  /\ Len(last.list) = 2
  /\ InterferingInfo[last.list[1]] = "Unknown"
  /\ InterferingInfo[last.list[2]] = "AllChildrenAreInterfering"
  /\ \E N \in Layouts \ Range(last.list) :
       InterferingInfo[N] = "AllChildrenAreNonInterfering"

\* C33: after removeNode(N), isRemoved holds of N.ID and of every identifier
\* of the class of N, those of the nodes merged into N, and of no other
\* identifier that was not removed before.
C33_RemovalCoversClass ==
  [][(last'.op = "removeNode" /\ ~halted') =>
       \A id \in Created :
         /\ id = last'.src => isRemoved(id)'
         /\ isRemoved(id)' <=> (isRemoved(id) \/ haveSameEqClass(id, last'.src))]_vars

\* A second node was removed, into which another node had been merged: three
\* identifiers are removed and no node is left.
C33_Witness ==
  /\ ~halted
  /\ last.op = "removeNode"
  /\ RemovedID # Null /\ RemovedID # last.src
  /\ NID = 3 /\ Layouts = {}
  /\ \A id \in Created : isRemoved(id)

\* C34: equality edges stay paired.  In every graph the mutation API reaches,
\* a node A has an Equality successor B if and only if B has an Equality
\* successor A.
C34_EqualityPaired ==
  ~halted =>
    \A A \in Layouts, B \in Created :
      (<<B, equalityTag>> \in Successors[A]) <=> (<<A, equalityTag>> \in Successors[B])

\* C35: live nodes and equivalence classes stay aligned.  In every state the
\* mutation API reaches, no live node's identifier is removed, no two live
\* nodes have identifiers of one class, and every identifier that is not
\* removed is in the class of exactly one live node.
C35_LiveNodesAndClasses ==
  ~halted =>
    /\ \A N \in Layouts : ~isRemoved(N)
    /\ \A N, M \in Layouts : N # M => ~haveSameEqClass(N, M)
    /\ \A id \in Created :
         ~isRemoved(id) => Cardinality({N \in Layouts : haveSameEqClass(id, N)}) = 1

\* One node was merged away, one was removed and one is live: the three
\* cases of an identifier.
C35_Witness ==
  /\ ~halted
  /\ NID = 3
  /\ Cardinality(Layouts) = 1
  /\ \E a, b \in Created \ Layouts :
       /\ a # b
       /\ isRemoved(a)
       /\ ~isRemoved(b)
       /\ \E N \in Layouts : haveSameEqClass(b, N)

\* C36: no dangling neighbours.  In every state reached by mutation calls on
\* live nodes, every node named by an entry of a live node's Successors or
\* Predecessors is a live node, and every tag of such an entry is in
\* LinkTags.
C36_NoDanglingNeighbours ==
  ~halted =>
    \A N \in Layouts :
      \A l \in Successors[N] \cup Predecessors[N] :
        l[1] \in Layouts /\ l[2] \in LinkTags

\* The part of C36 about the tags alone.
C36_TagsOfLiveNodes ==
  ~halted =>
    \A N \in Layouts : \A l \in Successors[N] \cup Predecessors[N] : l[2] \in LinkTags

\* The state mergeNodes starts from, and the result of mergeNodes(ToMerge)
\* in it.
MergeResult(ToMerge) ==
  MergeLoop([abort |-> "", S |-> Successors, P |-> Predecessors, L |-> Layouts,
             Size |-> Size, Info |-> InterferingInfo, EC |-> EC,
             NumClasses |-> NumClasses],
            ToMerge, 2, "goes on")

\* Whether the state of the variables after the call is the result r: the
\* same graph, Size and InterferingInfo, and the same equivalence classes.
SameAsResult(r) ==
  /\ Layouts' = r.L
  /\ Successors' = r.S
  /\ Predecessors' = r.P
  /\ Size' = r.Size
  /\ InterferingInfo' = r.Info
  /\ \A a, b \in Created :
       haveSameEqClass(a, b)' <=> (findLeaderIn(r.EC, a) = findLeaderIn(r.EC, b))

\* A call mergeNodes([A, B, C]) on three distinct nodes.
MergeOfThree ==
  /\ last'.op = "mergeNodes"
  /\ Len(last'.list) = 3
  /\ Cardinality(Range(last'.list)) = 3

NegativeInheritanceMove ==
  /\ last'.op = "moveEdge" /\ last'.path # "null"
  /\ last'.off < 0
  /\ getKind(last'.tag) = "LK_Inheritance"

\* C38 as stated: moveEdge on an Inheritance edge OldSrc -> Tgt with a
\* negative OffsetToSum does not abort; it takes the edge from OldSrc and
\* gives NewSrc a plain Inheritance edge to Tgt and nothing else; when
\* OldSrc # NewSrc the result is mirrored in Tgt.Predecessors.
C38_NegativeOffsetInheritance ==
  [][NegativeInheritanceMove =>
       LET OldSrc == last'.src
           NewSrc == last'.tgt
           Tgt == last'.list[1]
       IN /\ ~halted'
          /\ <<Tgt, inheritanceTag>> \in Successors[OldSrc]
          /\ <<Tgt, inheritanceTag>> \in Successors'[NewSrc]
          /\ Successors'[NewSrc] \subseteq Successors[NewSrc] \cup {<<Tgt, inheritanceTag>>}
          /\ OldSrc # NewSrc =>
               /\ <<Tgt, inheritanceTag>> \notin Successors'[OldSrc]
               /\ <<OldSrc, inheritanceTag>> \notin Predecessors'[Tgt]
               /\ <<NewSrc, inheritanceTag>> \in Predecessors'[Tgt]]_vars

\* C38 as amended: the call aborts when Tgt is no longer a live node and
\* does not abort otherwise; when NewSrc # Tgt it gives NewSrc a plain
\* Inheritance edge to Tgt and nothing else, and when NewSrc = Tgt it adds
\* no edge; when OldSrc # NewSrc the edge is gone from OldSrc.Successors and
\* from Tgt.Predecessors, and the edge of NewSrc, if any, is mirrored in
\* Tgt.Predecessors.
C38_NegativeOffsetInheritanceLive ==
  [][NegativeInheritanceMove =>
       LET OldSrc == last'.src
           NewSrc == last'.tgt
           Tgt == last'.list[1]
       IN /\ <<Tgt, inheritanceTag>> \in Successors[OldSrc]
          /\ halted' <=> (Tgt \notin Layouts)
          /\ ~halted' =>
               /\ Successors'[NewSrc] \subseteq Successors[NewSrc] \cup {<<Tgt, inheritanceTag>>}
               /\ IF NewSrc # Tgt
                  THEN <<Tgt, inheritanceTag>> \in Successors'[NewSrc]
                  ELSE /\ Successors' = [Successors EXCEPT ![OldSrc] = @ \ {<<Tgt, inheritanceTag>>}]
                       /\ Predecessors' = [Predecessors EXCEPT ![Tgt] = @ \ {<<OldSrc, inheritanceTag>>}]
               /\ OldSrc # NewSrc =>
                    /\ <<Tgt, inheritanceTag>> \notin Successors'[OldSrc]
                    /\ <<OldSrc, inheritanceTag>> \notin Predecessors'[Tgt]
                    /\ NewSrc # Tgt => <<NewSrc, inheritanceTag>> \in Predecessors'[Tgt]]_vars

\* An Inheritance edge was moved to another node with a negative offset and
\* is an Inheritance edge there, mirrored in the target.
C38_Witness ==
  /\ ~halted
  /\ last.op = "moveEdge"
  /\ last.path = "rebased"
  /\ last.off < 0
  /\ getKind(last.tag) = "LK_Inheritance"
  /\ last.src # last.tgt
  /\ last.list[1] # last.tgt
  /\ <<last.list[1], inheritanceTag>> \in Successors[last.tgt]
  /\ <<last.tgt, inheritanceTag>> \in Predecessors[last.list[1]]
  /\ <<last.list[1], inheritanceTag>> \notin Successors[last.src]

\* The call aborted on an edge whose target had been destroyed.
C38_AbortOnDestroyedTarget ==
  /\ halted
  /\ last.op = "moveEdge"
  /\ last.off < 0
  /\ getKind(last.tag) = "LK_Inheritance"
  /\ last.list[1] \notin Layouts

\* A moveEdge call with a non-zero OffsetToSum on an Inheritance or Instance
\* edge OldSrc -> NewSrc: the target of the edge is NewSrc itself.
MoveOntoTarget ==
  /\ last'.op = "moveEdge" /\ last'.path # "null"
  /\ last'.off # 0
  /\ getKind(last'.tag) \in {"LK_Inheritance", "LK_Instance"}
  /\ last'.list[1] = last'.tgt

\* What the call leaves when it returns: the edge is gone from
\* OldSrc.Successors and OldSrc from NewSrc.Predecessors for that tag, no
\* node has a new successor entry, NewSrc has no new entry on itself, and
\* the successor entries are one less.
MoveOntoTargetEffect ==
  LET OldSrc == last'.src
      NewSrc == last'.tgt
      Tag == last'.tag
  IN /\ <<NewSrc, Tag>> \in Successors[OldSrc]
     /\ <<NewSrc, Tag>> \notin Successors'[OldSrc]
     /\ <<OldSrc, Tag>> \notin Predecessors'[NewSrc]
     /\ \A N \in Layouts : Successors'[N] \subseteq Successors[N]
     /\ EntriesOf(Successors'[NewSrc], NewSrc) \subseteq EntriesOf(Successors[NewSrc], NewSrc)
     /\ EntriesOf(Predecessors'[NewSrc], NewSrc) \subseteq EntriesOf(Predecessors[NewSrc], NewSrc)
     /\ SumCard(Successors', Layouts) = SumCard(Successors, Layouts) - 1

\* C39: a moveEdge call with a non-zero OffsetToSum on an Inheritance or
\* Instance edge whose target is NewSrc, when it returns, has created no
\* edge: the edge is gone from OldSrc.Successors and OldSrc from
\* NewSrc.Predecessors, no self-edge on NewSrc is created, and the graph has
\* one edge less.
C39_MoveOntoTargetDropsEdge ==
  [][(MoveOntoTarget /\ ~halted') => MoveOntoTargetEffect]_vars

\* The calls of C39 that do not return: those on an Instance edge whose
\* offset plus OffsetToSum is negative.
C39_AbortsOnNegativeOffset ==
  [][MoveOntoTarget =>
       (halted' <=> (/\ getKind(last'.tag) = "LK_Instance"
                     /\ getOffsetExpr(last'.tag).Offset + last'.off < 0))]_vars

\* An Instance edge was moved onto its own target with a positive offset:
\* OldSrc and NewSrc are left without any edge between them.
C39_Witness ==
  /\ ~halted
  /\ last.op = "moveEdge"
  /\ last.path = "rebased"
  /\ last.off > 0
  /\ getKind(last.tag) = "LK_Instance"
  /\ last.list[1] = last.tgt
  /\ last.src # last.tgt
  /\ last.tgt \notin Neighbors(Successors[last.src])
  /\ last.src \notin Neighbors(Predecessors[last.tgt])
  /\ last.tgt \notin Neighbors(Successors[last.tgt])

\* An Inheritance edge was moved onto its own target with a negative offset.
C39_InheritanceOntoTarget ==
  /\ ~halted
  /\ last.op = "moveEdge"
  /\ last.path = "rebased"
  /\ last.off < 0
  /\ getKind(last.tag) = "LK_Inheritance"
  /\ last.list[1] = last.tgt
  /\ last.tgt \notin Neighbors(Successors[last.src])
====
